---- MODULE Spec2Model ----
(***************************************************************************)
(* Model of the Heerlen interactive map widget.                            *)
(*                                                                         *)
(* Part I  : filter engine (filters.ts), local-storage adapter             *)
(*           (localStorage.js / its TypeScript copy), the bootstrap click  *)
(*           handlers (app.js) and the map 'load' handler                  *)
(*           (mapInteractions.ts).  Specification SpecFilters.             *)
(* Part II : data loader (getGeoData / getARData / loadLocationData).      *)
(*           Specification SpecLoader.                                     *)
(*                                                                         *)
(* JavaScript values are records [t, v]; a JavaScript Set is a sequence    *)
(* without repetitions, in insertion order (the order Array.from yields).  *)
(***************************************************************************)
EXTENDS Integers, Sequences, FiniteSets, TLC

VARIABLES
  map,            \* state.map: "null" or "map"
  markersAdded,   \* state.markersAdded
  layers,         \* ids of the marker layers present in the map style
  layerFilter,    \* the filter expression each marker layer carries
  activeFilters,  \* state.activeFilters (Set<string>, insertion order)
  storage,        \* localStorage item under LOCAL_STORAGE_KEY
  saved,          \* history: the set written by the last save
  buttonActive,   \* per .filter-btn element: classList has 'is--active'
  buttonElements, \* filters.ts cache of the buttons set up
  clickHandlers,  \* per button: click listeners in registration order
  domReady,       \* DOMContentLoaded has fired
  mapLoadFired,   \* the map 'load' event has been delivered
  lastOp,         \* history: the operation completed last
  lastToggle,     \* history: what the last operation, a toggleFilter, found
  markerLog,      \* what addMarkers did to the map: how often the source
                  \* and each layer were added, the fade-in animations
                  \* started, and where the fade-in is
  locationList,   \* DOM: children of #location-list (or no container)
  arList,         \* DOM: children of #location-ar-list (or no container)
  features,       \* state.mapLocations.features
  geoLog,         \* counters of the last getGeoData pass
  arLog,          \* counters of the last getARData pass
  loads,          \* history: number of loadLocationData runs
  sm,             \* StateManager.state (the fields events derive from)
  subscribers,    \* StateManager.subscribers (Set, insertion order)
  listeners,      \* EventBus.listeners: event -> Set of handlers in order
  trace,          \* history: the calls and emissions of the last operation
  pre,            \* history: StateManager.state before the last operation
  smOp,           \* history: the state manager / event bus operation run last
  openPopups,     \* DOM: the popups whose element is on the map
  hideTimers,     \* pending 400 ms popup removals, each with the popup
                  \* that was active when it was scheduled (history)
  geoMgr,         \* GeolocationManager fields, its control and what it drew
  userClicked,    \* history: the geolocate button was clicked and no
                  \* position result or error was delivered since
  geoOp,          \* history: the geolocation handler run last
  tour,           \* the guided tour: the active tour's step, the window
                  \* globals of the marker wait, and the pending timers
  tourLog         \* history: the tour handler run last, the wait in
                  \* progress and the waits that were superseded

filterVars == <<map, markersAdded, layers, layerFilter, activeFilters, storage,
                saved, buttonActive, buttonElements, clickHandlers, domReady,
                mapLoadFired, lastOp, lastToggle, markerLog>>
loaderVars == <<locationList, arList, features, geoLog, arLog, loads>>
eventVars == <<sm, subscribers, listeners, trace, pre, smOp, openPopups, hideTimers>>
geoVars == <<geoMgr, userClicked, geoOp>>
tourVars == <<tour, tourLog>>
vars == <<filterVars, loaderVars, eventVars, geoVars, tourVars>>

(***************************************************************************)
(* Bounds                                                                  *)
(***************************************************************************)
NumCategories == 2

CategoryNames == <<"food", "retail", "sport", "kunst">>
Categories == {CategoryNames[i] : i \in 1..NumCategories}

\* the .filter-btn elements of the page in document order: one without
\* data-category, then one for food and one for retail
Buttons == 0..2
ButtonCategory == [b \in Buttons |-> IF b = 0 THEN "" ELSE CategoryNames[b]]

LOCAL_STORAGE_KEY == "heerlenActiveFilters"

(***************************************************************************)
(* State manager and event bus: the values a fresh page starts from        *)
(***************************************************************************)
\* the event names the state manager derives
Events ==
  [MAP_LOADED |-> "map:loaded", POPUP_OPENED |-> "popup:opened",
   POPUP_CLOSED |-> "popup:closed", FILTER_CHANGED |-> "filter:changed"]
EventNames == {Events[k] : k \in DOMAIN Events}

\* popup handles; "null" is no popup
Popups == {"p1", "p2"}

\* the state the constructor and reset() build.  activeFilters is the
\* identity of the Set object (0: the object the last operation found,
\* 1: an object the last operation created, above: objects created by
\* the running operation); markersAdded stands for the fields no event
\* derives from
InitialState ==
  [mapLoaded |-> FALSE, activePopup |-> "null", markersAdded |-> FALSE,
   activeFilters |-> 0]

NoCall == [name |-> "init", arg |-> "", threw |-> FALSE]

EventIdle ==
  /\ sm = InitialState
  /\ subscribers = <<>>
  /\ listeners = [e \in EventNames |-> <<>>]
  /\ trace = <<>>
  /\ pre = InitialState
  /\ smOp = NoCall
  /\ openPopups = {}
  /\ hideTimers = <<>>

(***************************************************************************)
(* Geolocation manager: the values its constructor sets                    *)
(***************************************************************************)
\* the manager after new GeolocationManager(map): its own fields, the
\* control's _watchState and position watch, and what it put on the map
\* and in the document
NewGeolocationManager ==
  [watchState |-> "OFF", watching |-> FALSE,
   userInitiatedGeolocation |-> FALSE, isTracking |-> FALSE,
   isFirstLocation |-> TRUE, isPopupOpen |-> FALSE,
   button |-> FALSE, buttonListener |-> FALSE, idleFired |-> FALSE,
   layersAdded |-> FALSE,
   boundaryVisible |-> FALSE, searchRadius |-> "empty", distanceMarkers |-> 0,
   boundaryPopup |-> FALSE, notifications |-> 0,
   wasTracking |-> FALSE,
   fillOpacity |-> 0, frames |-> <<>>,
   timers |-> [hide |-> 0, remove |-> 0, reset |-> 0],
   lastRequest |-> "none"]

NoGeoOp ==
  [name |-> "init", outside |-> FALSE, userInitiated |-> FALSE, clicked |-> FALSE,
   watchBefore |-> "OFF", flights |-> {}, notified |-> FALSE, popupShown |-> FALSE,
   pausedFrom |-> "none"]

GeoIdle ==
  /\ geoMgr = NewGeolocationManager
  /\ userClicked = FALSE
  /\ geoOp = NoGeoOp

(***************************************************************************)
(* Guided tour: the page before any tour was started                       *)
(***************************************************************************)
\* no tour yet: window.activeTour, tourWaitingForMarkerClick,
\* markerClickFallbackTimer and markerClickListener are undefined, and no
\* timer is pending (timer ids start at 1, 0 stands for undefined)
NoTour ==
  [active |-> FALSE, step |-> "none", listener |-> FALSE,
   waiting |-> FALSE, timerId |-> 0, nextId |-> 1,
   pending |-> {}, advance |-> 0, hintVisible |-> FALSE, hints |-> 0]

NoTourLog == [name |-> "init", wait |-> 0, superseded |-> {}, hintFor |-> 0]

TourIdle ==
  /\ tour = NoTour
  /\ tourLog = NoTourLog

(***************************************************************************)
(* JavaScript Set<string> as an insertion-ordered sequence                 *)
(***************************************************************************)
Members(S) == {S[i] : i \in DOMAIN S}

SetHas(S, x) == \E i \in DOMAIN S : S[i] = x

SetAdd(S, x) == IF SetHas(S, x) THEN S ELSE Append(S, x)

SetDelete(S, x) == SelectSeq(S, LAMBDA y : y # x)

RECURSIVE NewSetFrom(_, _)
NewSetFrom(arr, acc) ==
  IF arr = <<>> THEN acc ELSE NewSetFrom(Tail(arr), SetAdd(acc, Head(arr)))

\* new Set(iterable of strings)
NewSet(arr) == NewSetFrom(arr, <<>>)

\* iterating a JavaScript string yields its characters
StringChars(str) ==
  CASE str = "food"   -> <<"f", "o", "o", "d">>
    [] str = "retail" -> <<"r", "e", "t", "a", "i", "l">>
    [] str = "sport"  -> <<"s", "p", "o", "r", "t">>
    [] str = "kunst"  -> <<"k", "u", "n", "s", "t">>
    [] OTHER          -> <<>>

(***************************************************************************)
(* JSON text as a sequence of tokens; JSON.stringify and JSON.parse        *)
(***************************************************************************)
Punct(c) == [k |-> "punct", v |-> c]
StrTok(s) == [k |-> "string", v |-> s]
NumTok(n) == [k |-> "number", v |-> n]
LitTok(l) == [k |-> "literal", v |-> l]

RECURSIVE StringifyItems(_)
StringifyItems(arr) ==
  IF arr = <<>> THEN <<>>
  ELSE IF Len(arr) = 1 THEN <<StrTok(arr[1])>>
  ELSE <<StrTok(Head(arr)), Punct(",")>> \o StringifyItems(Tail(arr))

\* a stringify that leaves out the separators between the elements
JsonStringify_NoSeparators(arr) ==
  <<Punct("[")>> \o [i \in DOMAIN arr |-> StrTok(arr[i])] \o <<Punct("]")>>

\* JSON.stringify(array of strings)
JsonStringify(arr) == <<Punct("[")>> \o StringifyItems(arr) \o <<Punct("]")>>

JsSyntaxError == [t |-> "SyntaxError", v |-> <<>>]
JsArray(items) == [t |-> "array", v |-> items]
JsString(s) == [t |-> "string", v |-> s]
JsNull == [t |-> "null", v |-> ""]

\* the elements of a JSON array of strings, from token i on; "expect" is
\* what the grammar allows next
RECURSIVE ParseItems(_, _, _, _)
ParseItems(text, i, expect, acc) ==
  IF i > Len(text) THEN JsSyntaxError
  ELSE LET tok == text[i] IN
    CASE expect = "valueOrEnd" ->
           IF tok = Punct("]")
             THEN (IF i = Len(text) THEN JsArray(acc) ELSE JsSyntaxError)
           ELSE IF tok.k = "string"
             THEN ParseItems(text, i + 1, "commaOrEnd", Append(acc, tok.v))
           ELSE JsSyntaxError
      [] expect = "value" ->
           IF tok.k = "string"
             THEN ParseItems(text, i + 1, "commaOrEnd", Append(acc, tok.v))
           ELSE JsSyntaxError
      [] OTHER ->
           IF tok = Punct("]")
             THEN (IF i = Len(text) THEN JsArray(acc) ELSE JsSyntaxError)
           ELSE IF tok = Punct(",")
             THEN ParseItems(text, i + 1, "value", acc)
           ELSE JsSyntaxError

\* JSON.parse(text) for scalars, the empty object and arrays of strings
JsonParse(text) ==
  IF Len(text) = 0 THEN JsSyntaxError
  ELSE IF Len(text) = 1 THEN
    CASE text[1].k = "string" -> JsString(text[1].v)
      [] text[1].k = "number" -> [t |-> "number", v |-> text[1].v]
      [] text[1] = LitTok("null") -> JsNull
      [] text[1] \in {LitTok("true"), LitTok("false")} ->
           [t |-> "boolean", v |-> text[1].v]
      [] OTHER -> JsSyntaxError
  ELSE IF text = <<Punct("{"), Punct("}")>> THEN [t |-> "object", v |-> ""]
  ELSE IF text[1] = Punct("[") THEN ParseItems(text, 2, "valueOrEnd", <<>>)
  ELSE JsSyntaxError

\* localStorage item: absent (getItem gives null) or a stored text
NoItem == [present |-> FALSE, text |-> <<>>]
Item(text) == [present |-> TRUE, text |-> text]

(***************************************************************************)
(* Map engine: filter expressions and their evaluation on a feature        *)
(***************************************************************************)
Expr(op, args) == [op |-> op, args |-> args]

\* a layer without filter (never filtered, or setFilter(layer, null))
NoFilter == Expr("none", <<>>)

LayersToFilter == <<"location-markers", "location-icons", "location-labels">>
LayerIds == {LayersToFilter[i] : i \in DOMAIN LayersToFilter}

\* marker opacity in steps of 0.1: the layers are opaque at ten, and the
\* sum of ten times 0.1 is 0.9999999999999999 in double arithmetic, still
\* below 1, so the loop takes an eleventh step
OpacityFull == 10
MarkerSteps == 11
MaxCalls == 3

\* nothing added yet: a new map
NoMarkerLog ==
  [calls |-> 0, sources |-> 0, layerAdds |-> [l \in LayerIds |-> 0],
   interactions |-> 0, animations |-> 0, timers |-> 0, loops |-> <<>>,
   opacity |-> 0]

\* the category attribute of the features a layer may render
FeatureCategories == {JsString(c) : c \in Categories \cup {"", "Overig"}} \cup {JsNull}
MapFeatures ==
  {[has |-> TRUE, category |-> c] : c \in FeatureCategories}
    \cup {[has |-> FALSE, category |-> JsNull]}

EvalValue(e, f) ==
  CASE e.op = "get"     -> (IF f.has THEN f.category ELSE JsNull)
    [] e.op = "literal" -> JsArray(e.args)
    [] OTHER            -> JsString(e.args[1])

RECURSIVE Passes(_, _)
Passes(e, f) ==
  CASE e.op = "none" -> TRUE
    [] e.op = "any"  -> \E i \in DOMAIN e.args : Passes(e.args[i], f)
    [] e.op = "!"    -> ~Passes(e.args[1], f)
    [] e.op = "has"  -> f.has
    [] e.op = "in"   ->
         LET needle == EvalValue(e.args[1], f)
             haystack == EvalValue(e.args[2], f)
         IN needle.t = "string" /\ \E i \in DOMAIN haystack.v : haystack.v[i] = needle.v
    [] OTHER         -> EvalValue(e.args[1], f) = EvalValue(e.args[2], f)

(***************************************************************************)
(* The filter state as one record, so that the functions of the source     *)
(* compose as they call each other                                         *)
(***************************************************************************)
Cur == [map |-> map, markersAdded |-> markersAdded, layers |-> layers,
        layerFilter |-> layerFilter, activeFilters |-> activeFilters,
        storage |-> storage, saved |-> saved, buttonActive |-> buttonActive,
        buttonElements |-> buttonElements, clickHandlers |-> clickHandlers,
        markerLog |-> markerLog]

\* stateManager.setActiveFilters: the state takes a copy of the set
setActiveFilters(s, filters) == [s EXCEPT !.activeFilters = NewSet(filters)]

\* stateManager.clearFilters
clearFilters(s) == [s EXCEPT !.activeFilters = <<>>]

\* localStorage.setItem(LOCAL_STORAGE_KEY, JSON.stringify(Array.from(set)))
saveMapFiltersToLocalStorage(s) ==
  [s EXCEPT !.storage = Item(JsonStringify(s.activeFilters)),
            !.saved = [valid |-> TRUE, set |-> Members(s.activeFilters)]]

\* a filter expression that forgets the features without a category
FilterExpression_OnlyActive(currentFilters) ==
  IF Len(currentFilters) = 0 THEN NoFilter
  ELSE Expr("any",
         <<Expr("in", <<Expr("get", <<"category">>), Expr("literal", currentFilters)>>),
           Expr("==", <<Expr("get", <<"category">>), Expr("const", <<"">>)>>)>>)

\* the expression applyMapFilters builds from the active filters
FilterExpression(currentFilters) ==
  IF Len(currentFilters) = 0 THEN NoFilter
  ELSE Expr("any",
         <<Expr("in", <<Expr("get", <<"category">>), Expr("literal", currentFilters)>>),
           Expr("!", <<Expr("has", <<"category">>)>>),
           Expr("==", <<Expr("get", <<"category">>), Expr("const", <<"">>)>>)>>)

applyMapFilters(s) ==
  IF s.map = "null" THEN s
  ELSE saveMapFiltersToLocalStorage(
         [s EXCEPT !.layerFilter =
            [l \in LayerIds |-> IF l \in s.layers
                                  THEN FilterExpression(s.activeFilters)
                                  ELSE s.layerFilter[l]]])

\* a toggle that only ever adds the category
toggleFilter_AddOnly(s, category) ==
  IF category = "" THEN s
  ELSE applyMapFilters(setActiveFilters(s, SetAdd(s.activeFilters, category)))

toggleFilter(s, category) ==
  IF category = "" THEN s
  ELSE applyMapFilters(
         setActiveFilters(s, IF SetHas(s.activeFilters, category)
                               THEN SetDelete(s.activeFilters, category)
                               ELSE SetAdd(s.activeFilters, category)))

\* classList.toggle('is--active', has(category)) on every button that has
\* a category
SyncButtons(s, filters) ==
  [s EXCEPT !.buttonActive =
     [b \in Buttons |-> IF ButtonCategory[b] # ""
                          THEN SetHas(filters, ButtonCategory[b])
                          ELSE s.buttonActive[b]]]

updateFilterButtonStates(s) == SyncButtons(s, s.activeFilters)

clearAllFilters(s) == applyMapFilters(updateFilterButtonStates(clearFilters(s)))

setFilters(s, categories) ==
  applyMapFilters(updateFilterButtonStates(setActiveFilters(s, categories)))

\* querySelectorAll('.filter-btn') in document order
AllButtons == [i \in 1..Cardinality(Buttons) |-> i - 1]

setupLocationFilters(s) ==
  IF Len(s.buttonElements) > 0 THEN s
  ELSE [s EXCEPT !.buttonElements = AllButtons,
                 !.clickHandlers = [b \in Buttons |-> Append(s.clickHandlers[b], "setup")]]

\* the click listener setupLocationFilters registers on a button
SetupClickHandler(s, b) ==
  LET category == ButtonCategory[b] IN
  IF category = "" THEN s
  ELSE LET has == SetHas(s.activeFilters, category)
           s1 == [s EXCEPT !.buttonActive[b] = ~has]
       IN applyMapFilters(
            setActiveFilters(s1, IF has THEN SetDelete(s.activeFilters, category)
                                        ELSE SetAdd(s.activeFilters, category)))

\* the click listener the bootstrap registers on a button
BootstrapClickHandler(s, b) ==
  LET category == ButtonCategory[b] IN
  IF category = "" THEN s
  ELSE LET s1 == toggleFilter(s, category)
       IN [s1 EXCEPT !.buttonActive[b] = ~s1.buttonActive[b]]

RECURSIVE RunHandlers(_, _, _)
RunHandlers(s, b, hs) ==
  IF hs = <<>> THEN s
  ELSE RunHandlers(IF Head(hs) = "setup" THEN SetupClickHandler(s, b)
                                         ELSE BootstrapClickHandler(s, b),
                   b, Tail(hs))

(***************************************************************************)
(* Local-storage adapter                                                   *)
(***************************************************************************)
\* new Set(v) accepts null/undefined, arrays and strings; any other value
\* is not iterable and makes the constructor throw a TypeError
Iterable(v) == v.t \in {"array", "string", "null"}

SetOfValue(v) ==
  CASE v.t = "array"  -> NewSet(v.v)
    [] v.t = "string" -> NewSet(StringChars(v.v))
    [] OTHER          -> <<>>

\* updateMapState(activeCategories), for an iterable argument
updateMapState(s, activeCategories) ==
  LET newFilters == SetOfValue(activeCategories)
  IN applyMapFilters(SyncButtons(setActiveFilters(s, newFilters), newFilters))

\* the value loadFiltersAndUpdateMap hands to updateMapState in its try block
StoredCategories(s) ==
  IF s.storage.present /\ s.storage.text # <<>>
    THEN JsonParse(s.storage.text)
    ELSE JsArray(<<>>)

\* the try block fails when JSON.parse or the Set constructor throws
TryFails(activeCategories) ==
  activeCategories.t = "SyntaxError" \/ ~Iterable(activeCategories)

loadFiltersAndUpdateMap(s) ==
  LET activeCategories == StoredCategories(s)
  IN IF TryFails(activeCategories)
       THEN updateMapState(s, JsArray(<<>>))
       ELSE updateMapState(s, activeCategories)

\* an error leaves loadFiltersAndUpdateMap only if the catch block throws
loadFiltersThrows(s) == TryFails(StoredCategories(s)) /\ ~Iterable(JsArray(<<>>))

\* animateMarkerAppearance(map): a fresh local opacity and the 100 ms
\* timer that runs the first step
animateMarkerAppearance(s) ==
  [s EXCEPT !.markerLog.animations = @ + 1,
            !.markerLog.timers = @ + 1]

\* the body of addMarkers after its guard: the source, the three layers,
\* the hover listeners, the fade-in, and the flag
addMarkersBody(s) ==
  animateMarkerAppearance(
    [s EXCEPT !.layers = LayerIds,
              !.layerFilter = [l \in LayerIds |-> NoFilter],
              !.markerLog.sources = @ + 1,
              !.markerLog.layerAdds = [l \in LayerIds |-> @[l] + 1],
              !.markerLog.interactions = @ + 1,
              !.markersAdded = TRUE])

\* a call of addMarkers is counted (history) whatever it does
CountCall(s) == [s EXCEPT !.markerLog.calls = @ + 1]

\* addMarkers without the markersAdded guard
addMarkers_NoGuard(s) == addMarkersBody(CountCall(s))

\* addMarkers(map): the source and the three layers, once
addMarkers(s) ==
  IF s.markersAdded THEN CountCall(s)
  ELSE addMarkersBody(CountCall(s))

\* one step of animateMarkers for the loop whose local opacity has taken n
\* steps of 0.1: the layers get min(opacity, 1), and the loop asks for
\* another frame while opacity < 1
animateMarkers(s, n) ==
  [s EXCEPT !.markerLog.opacity = IF n + 1 > OpacityFull THEN OpacityFull ELSE n + 1,
            !.markerLog.loops = IF n + 1 < MarkerSteps THEN <<n + 1>> ELSE <<>>]

\* the 'load' listener without the second applyMapFilters call
MapLoadHandler_NoReapply(s) ==
  setupLocationFilters(addMarkers(loadFiltersAndUpdateMap(s)))

\* the map 'load' listener of setupMapLoadHandler
MapLoadHandler(s) ==
  LET s1 == setupLocationFilters(addMarkers(loadFiltersAndUpdateMap(s)))
  IN IF s1.markersAdded THEN applyMapFilters(s1) ELSE s1

(***************************************************************************)
(* Part I: initial state and actions                                       *)
(***************************************************************************)
\* the subsequences of the first n category names
RECURSIVE SubSeqs(_)
SubSeqs(n) ==
  IF n = 0 THEN {<<>>}
  ELSE SubSeqs(n - 1) \cup {Append(q, CategoryNames[n]) : q \in SubSeqs(n - 1)}

\* arrays of categories, as arguments of setFilters / updateMapState and as
\* stored arrays: every set of categories, the full set also in reverse
\* order, and an array that names a category twice
CategoryArrays ==
  SubSeqs(NumCategories)
    \cup {[i \in 1..NumCategories |-> CategoryNames[NumCategories + 1 - i]]}
    \cup {<<"food", "food">>}

\* what the browser may hold under the key when the page opens: nothing,
\* the empty string, texts that are not JSON, JSON that is not an array,
\* and arrays of categories
StoredTexts ==
  {<<>>,
   <<Punct("["), StrTok("food")>>,
   <<StrTok("food"), Punct("]")>>,
   <<LitTok("undefined")>>,
   <<StrTok("food")>>,
   <<StrTok("")>>,
   <<NumTok("5")>>,
   <<LitTok("null")>>,
   <<LitTok("true")>>,
   <<Punct("{"), Punct("}")>>}
    \cup {JsonStringify(a) : a \in CategoryArrays}

StoredItems == {NoItem} \cup {Item(t) : t \in StoredTexts}

NoOp == [name |-> "init", arg |-> "", threw |-> FALSE]
Op(name) == [name |-> name, arg |-> "", threw |-> FALSE]
OpOn(name, category) == [name |-> name, arg |-> category, threw |-> FALSE]

\* the features a layer shows under its current filter
Shown(filter) == {f \in MapFeatures : Passes(filter, f)}

\* what a toggleFilter(category) call found: the active filters and what
\* the layers showed before it, and how many toggleFilter calls with this
\* category ran in a row (counted up to two)
NoToggle == [streak |-> 0, filters |-> {}, shown |-> [l \in LayerIds |-> {}]]
ToggleOf(category) ==
  [streak |-> IF lastOp.name = "toggleFilter" /\ lastOp.arg = category
                THEN 2 ELSE 1,
   filters |-> Members(activeFilters),
   shown |-> [l \in LayerIds |-> Shown(layerFilter[l])]]

PageInit ==
  /\ map = "null"
  /\ markersAdded = FALSE
  /\ layers = {}
  /\ layerFilter = [l \in LayerIds |-> NoFilter]
  /\ activeFilters = <<>>
  /\ buttonActive = [b \in Buttons |-> FALSE]
  /\ buttonElements = <<>>
  /\ clickHandlers = [b \in Buttons |-> <<>>]
  /\ domReady = FALSE
  /\ mapLoadFired = FALSE
  /\ lastOp = NoOp
  /\ markerLog = NoMarkerLog

FilterInit ==
  /\ PageInit
  /\ storage \in StoredItems
  /\ saved = [valid |-> FALSE, set |-> {}]
  /\ lastToggle = NoToggle

\* the state a handler leaves, with the bookkeeping of what ran
Commit(s, op) ==
  /\ map' = s.map
  /\ markersAdded' = s.markersAdded
  /\ layers' = s.layers
  /\ layerFilter' = s.layerFilter
  /\ activeFilters' = s.activeFilters
  /\ storage' = s.storage
  /\ saved' = s.saved
  /\ buttonActive' = s.buttonActive
  /\ buttonElements' = s.buttonElements
  /\ clickHandlers' = s.clickHandlers
  /\ markerLog' = s.markerLog
  /\ lastOp' = op
  /\ UNCHANGED <<loaderVars, eventVars, geoVars, tourVars>>

\* Webflow ready callback: initializeMap() stores the map handle
Bootstrap ==
  /\ map = "null"
  /\ Commit([Cur EXCEPT !.map = "map"], Op("initializeMap"))
  /\ lastToggle' = NoToggle
  /\ UNCHANGED <<domReady, mapLoadFired>>

\* DOMContentLoaded: the listener the bootstrap registered (if it was
\* registered in time) puts its click listener on every filter button
DomContentLoaded ==
  /\ ~domReady
  /\ domReady' = TRUE
  /\ Commit(IF map = "map"
              THEN [Cur EXCEPT !.clickHandlers =
                      [b \in Buttons |-> Append(clickHandlers[b], "bootstrap")]]
              ELSE Cur,
            Op("DOMContentLoaded"))
  /\ lastToggle' = NoToggle
  /\ UNCHANGED mapLoadFired

MapLoad ==
  /\ map = "map"
  /\ ~mapLoadFired
  /\ mapLoadFired' = TRUE
  /\ Commit(MapLoadHandler(Cur), Op("mapLoad"))
  /\ lastToggle' = NoToggle
  /\ UNCHANGED domReady

\* toggleFilter(category), also through window.HeerlenMap.toggleFilter
ToggleFilter(category) ==
  /\ Commit(toggleFilter(Cur, category), OpOn("toggleFilter", category))
  /\ lastToggle' = ToggleOf(category)
  /\ UNCHANGED <<domReady, mapLoadFired>>

ClearAllFilters ==
  /\ Commit(clearAllFilters(Cur), Op("clearAllFilters"))
  /\ lastToggle' = NoToggle
  /\ UNCHANGED <<domReady, mapLoadFired>>

SetFilters(categories) ==
  /\ Commit(setFilters(Cur, categories), Op("setFilters"))
  /\ lastToggle' = NoToggle
  /\ UNCHANGED <<domReady, mapLoadFired>>

UpdateMapState(categories) ==
  /\ Commit(updateMapState(Cur, JsArray(categories)), Op("updateMapState"))
  /\ lastToggle' = NoToggle
  /\ UNCHANGED <<domReady, mapLoadFired>>

SaveMapFilters ==
  /\ Commit(saveMapFiltersToLocalStorage(Cur), Op("saveMapFiltersToLocalStorage"))
  /\ lastToggle' = NoToggle
  /\ UNCHANGED <<domReady, mapLoadFired>>

LoadFilters ==
  /\ Commit(loadFiltersAndUpdateMap(Cur),
            [Op("loadFiltersAndUpdateMap") EXCEPT !.threw = loadFiltersThrows(Cur)])
  /\ lastToggle' = NoToggle
  /\ UNCHANGED <<domReady, mapLoadFired>>

\* a user click on filter button b runs its listeners in registration order
Click(b) ==
  /\ clickHandlers[b] # <<>>
  /\ Commit(RunHandlers(Cur, b, clickHandlers[b]), OpOn("click", ButtonCategory[b]))
  /\ lastToggle' = NoToggle
  /\ UNCHANGED <<domReady, mapLoadFired>>

\* the page is reloaded: only the browser's storage survives
Reload ==
  /\ lastOp.name # "init"
  /\ Commit([map |-> "null", markersAdded |-> FALSE, layers |-> {},
             layerFilter |-> [l \in LayerIds |-> NoFilter],
             activeFilters |-> <<>>, storage |-> storage, saved |-> saved,
             buttonActive |-> [b \in Buttons |-> FALSE],
             buttonElements |-> <<>>,
             clickHandlers |-> [b \in Buttons |-> <<>>],
             markerLog |-> NoMarkerLog],
            NoOp)
  /\ domReady' = FALSE
  /\ mapLoadFired' = FALSE
  /\ lastToggle' = NoToggle

LoaderIdle ==
  /\ locationList = [present |-> FALSE, items |-> <<>>]
  /\ arList = [present |-> FALSE, items |-> <<>>]
  /\ features = <<>>
  /\ geoLog = [ran |-> FALSE, loaded |-> 0, skipped |-> 0]
  /\ arLog = [ran |-> FALSE, loaded |-> 0, skipped |-> 0, startIndex |-> 0]
  /\ loads = 0

InitFilters == FilterInit /\ LoaderIdle /\ EventIdle /\ GeoIdle /\ TourIdle

NextFilters ==
  \/ Bootstrap
  \/ DomContentLoaded
  \/ MapLoad
  \/ \E c \in Categories \cup {""} : ToggleFilter(c)
  \/ ClearAllFilters
  \/ \E a \in CategoryArrays : SetFilters(a)
  \/ \E a \in CategoryArrays : UpdateMapState(a)
  \/ SaveMapFilters
  \/ LoadFilters
  \/ \E b \in Buttons : Click(b)
  \/ Reload

SpecFilters == InitFilters /\ [][NextFilters]_vars

(***************************************************************************)
(* Part I, markers: addMarkers called any number of times, and its fade-in *)
(***************************************************************************)
\* addMarkers(map) called again, by any caller, once the style has loaded
AddMarkers ==
  /\ mapLoadFired
  /\ markerLog.calls < MaxCalls
  /\ Commit(addMarkers(Cur), Op("addMarkers"))
  /\ lastToggle' = NoToggle
  /\ UNCHANGED <<domReady, mapLoadFired>>

\* the 100 ms timer of animateMarkerAppearance runs the first step
MarkerTimeout ==
  /\ markerLog.timers > 0
  /\ markerLog.loops = <<>>
  /\ Commit(animateMarkers([Cur EXCEPT !.markerLog.timers = @ - 1], 0),
            Op("markerTimeout"))
  /\ lastToggle' = NoToggle
  /\ UNCHANGED <<domReady, mapLoadFired>>

\* an animation frame runs the step the fade-in loop asked for
MarkerFrame ==
  /\ markerLog.loops # <<>>
  /\ Commit(animateMarkers(Cur, markerLog.loops[1]), Op("markerFrame"))
  /\ lastToggle' = NoToggle
  /\ UNCHANGED <<domReady, mapLoadFired>>

NextMarkers ==
  \/ Bootstrap
  \/ DomContentLoaded
  \/ MapLoad
  \/ AddMarkers
  \/ MarkerTimeout
  \/ MarkerFrame

SpecMarkers == InitFilters /\ [][NextMarkers]_vars

\* what one addMarkers call adds
AddedOnce(log) ==
  /\ log.sources = 1
  /\ \A l \in LayerIds : log.layerAdds[l] = 1
  /\ log.animations = 1

\* C23: over any number of addMarkers calls the 'locations' source and the
\* three marker layers are each added exactly once and the fade-in is
\* started exactly once; markersAdded is true after the first call, and a
\* call after the first changes nothing (but the count of calls, which is
\* history)
C23_AddMarkersIdempotent ==
  [][markerLog'.calls > markerLog.calls =>
       /\ AddedOnce(markerLog')
       /\ markersAdded'
       /\ layers' = LayerIds
       /\ markerLog.calls >= 1 =>
            /\ [markerLog' EXCEPT !.calls = markerLog.calls] = markerLog
            /\ UNCHANGED <<map, markersAdded, layers, layerFilter, activeFilters,
                           storage, saved, buttonActive, buttonElements,
                           clickHandlers>>]_vars

C23_Witness ==
  /\ lastOp.name = "addMarkers"
  /\ markerLog.calls = MaxCalls
  /\ AddedOnce(markerLog)
  /\ markerLog.opacity = OpacityFull
  /\ markerLog.loops = <<>>

(***************************************************************************)
(* Part I: properties                                                      *)
(***************************************************************************)
\* the set a stored item decodes to, when it holds an array
DecodesTo(item, set) ==
  /\ item.present
  /\ JsonParse(item.text).t = "array"
  /\ Members(JsonParse(item.text).v) = set

\* C1: once saveMapFiltersToLocalStorage has stored the active filters S,
\* a later loadFiltersAndUpdateMap, whatever the active filters are by
\* then, makes the active filters equal to S as a set and leaves a stored
\* value that decodes to S.
C1_SaveLoadRoundTrip ==
  [][(saved.valid /\ lastOp'.name = "loadFiltersAndUpdateMap" /\ LoadFilters) =>
       (Members(activeFilters') = saved.set /\ DecodesTo(storage', saved.set))]_vars

\* a load, with no map handle yet, has restored two saved filters
C1_Witness ==
  /\ lastOp.name = "loadFiltersAndUpdateMap"
  /\ map = "null"
  /\ saved.valid
  /\ Cardinality(saved.set) = 2
  /\ Members(activeFilters) = saved.set

\* absent, not JSON, or JSON that is not an array
Malformed(item) == ~item.present \/ JsonParse(item.text).t # "array"

\* C2: when the stored value is absent, unparseable or not an array,
\* loadFiltersAndUpdateMap leaves the active filters empty and raises no
\* error.
C2_MalformedGivesEmpty ==
  [][(Malformed(storage) /\ lastOp'.name = "loadFiltersAndUpdateMap" /\ LoadFilters) =>
       (activeFilters' = <<>> /\ ~lastOp'.threw)]_vars

\* what the claim says a layer shows under the active filters A
ShownUnder(A) ==
  {f \in MapFeatures :
     \/ A = <<>>
     \/ ~f.has
     \/ f.category = JsString("")
     \/ (f.category.t = "string" /\ SetHas(A, f.category.v))}

\* C3: a feature passes the filter applyMapFilters installed on a marker
\* layer iff no filter is active, or the feature has no category attribute,
\* or its category is the empty string, or its category is an active filter.
C3_FilterPredicate ==
  \A l \in layers : Shown(layerFilter[l]) = ShownUnder(activeFilters)

\* with food the only active filter, the layers show food and the features
\* without category, and hide retail
C3_Witness ==
  /\ layers = LayerIds
  /\ activeFilters = <<"food">>
  /\ \A l \in layers :
       /\ Passes(layerFilter[l], [has |-> TRUE, category |-> JsString("food")])
       /\ ~Passes(layerFilter[l], [has |-> TRUE, category |-> JsString("retail")])
       /\ Passes(layerFilter[l], [has |-> FALSE, category |-> JsNull])

\* C4: after every completed mutation of the filter engine the stored
\* array has exactly the members of the active filters.
C4_PersistedOnEveryMutation ==
  (\/ lastOp.name \in {"clearAllFilters", "setFilters"}
   \/ (lastOp.name \in {"toggleFilter", "click"} /\ lastOp.arg # ""))
    => DecodesTo(storage, Members(activeFilters))

\* C5: toggleFilter(c) right after toggleFilter(c), c not empty, gives back
\* the active filters and the features the layers show that the first call
\* found; toggleFilter("") changes nothing.
C5_DoubleToggle ==
  [][\A c \in Categories \cup {""} :
       (lastOp' = OpOn("toggleFilter", c) /\ ToggleFilter(c)) =>
         /\ (c = "") =>
              UNCHANGED <<map, markersAdded, layers, layerFilter, activeFilters,
                          storage, buttonActive, buttonElements, clickHandlers>>
         /\ (c # "" /\ lastOp.name = "toggleFilter" /\ lastOp.arg = c) =>
              /\ Members(activeFilters') = lastToggle.filters
              /\ layers' = layers
              /\ \A l \in LayerIds : Shown(layerFilter'[l]) = lastToggle.shown[l]]_vars

\* food was toggled twice in a row while retail was active and the layers
\* were filtered
C5_Witness ==
  /\ lastOp.name = "toggleFilter"
  /\ lastOp.arg = "food"
  /\ lastToggle.streak = 2
  /\ layers = LayerIds
  /\ activeFilters = <<"retail">>

\* C6: every filter button with a category carries is--active iff its
\* category is an active filter.
C6_ButtonsInSync ==
  \A b \in Buttons :
    ButtonCategory[b] # "" =>
      (buttonActive[b] <=> SetHas(activeFilters, ButtonCategory[b]))

\* C26: when the stored value holds an array, the map 'load' handler leaves
\* the active filters equal to the stored set, and the three marker layers,
\* which it added after restoring the filters, show exactly what that set
\* lets through.
C26_LoadRestoresFilters ==
  [][(lastOp'.name = "mapLoad" /\ ~Malformed(storage) /\ MapLoad) =>
       /\ Members(activeFilters') = Members(JsonParse(storage.text).v)
       /\ layers = {}
       /\ layers' = LayerIds
       /\ \A l \in LayerIds : Shown(layerFilter'[l]) = ShownUnder(activeFilters')]_vars

\* the load handler restored two stored filters onto the new layers
C26_Witness ==
  /\ lastOp.name = "mapLoad"
  /\ Cardinality(Members(activeFilters)) = 2
  /\ layers = LayerIds
  /\ \A l \in LayerIds : layerFilter[l] = FilterExpression(activeFilters)

\* C29: one click on a button with category c flips the membership of c in
\* the active filters and leaves the other categories alone, whichever
\* click listeners the button carries; a second setupLocationFilters call
\* registers nothing.
C29_ClickFlipsOnce ==
  [][\A b \in Buttons :
       (lastOp' = OpOn("click", ButtonCategory[b]) /\ ButtonCategory[b] # "" /\ Click(b)) =>
         /\ SetHas(activeFilters', ButtonCategory[b]) = ~SetHas(activeFilters, ButtonCategory[b])
         /\ Members(activeFilters') \ {ButtonCategory[b]} =
              Members(activeFilters) \ {ButtonCategory[b]}
         /\ setupLocationFilters(setupLocationFilters(Cur)) = setupLocationFilters(Cur)]_vars

(***************************************************************************)
(* Part II: data loader.  Strings are sequences of characters here, so     *)
(* that parseFloat and the template literals do their work on the text.    *)
(***************************************************************************)
MaxRecords == 3
MaxLoads == 2

DomNull == [t |-> "null", v |-> <<>>]
DomUndefined == [t |-> "undefined", v |-> <<>>]
DomString(chars) == [t |-> "string", v |-> chars]

\* an element a selector finds in a CMS item: absent, present without the
\* property asked for, or present with a value
Absent == [kind |-> "absent", value |-> <<>>]
NoProperty == [kind |-> "noprop", value |-> <<>>]
Value(chars) == [kind |-> "value", value |-> chars]

\* getRobustValue(parentElement, selector, property, defaultValue, ...)
getRobustValue(element, selector, defaultValue) ==
  LET targetElement == element[selector]
  IN IF targetElement.kind = "value" THEN DomString(targetElement.value)
     ELSE defaultValue

\* String(v), the conversion parseFloat applies to its argument
JsToString(v) ==
  CASE v.t = "null"      -> <<"n", "u", "l", "l">>
    [] v.t = "undefined" -> <<"u", "n", "d", "e", "f", "i", "n", "e", "d">>
    [] OTHER             -> v.v

DigitChars == <<"0", "1", "2", "3", "4", "5", "6", "7", "8", "9">>
IsDigit(c) == \E i \in DOMAIN DigitChars : DigitChars[i] = c

\* the decimal text of a natural number, as a template literal renders it
RECURSIVE NatToChars(_)
NatToChars(n) ==
  IF n < 10 THEN <<DigitChars[n + 1]>>
  ELSE Append(NatToChars(n \div 10), DigitChars[(n % 10) + 1])

RECURSIVE TrimStart(_)
TrimStart(str) ==
  IF str # <<>> /\ Head(str) = " " THEN TrimStart(Tail(str)) ELSE str

RECURSIVE LeadingDigits(_)
LeadingDigits(str) ==
  IF str # <<>> /\ IsDigit(Head(str))
    THEN <<Head(str)>> \o LeadingDigits(Tail(str))
    ELSE <<>>

InfinityChars == <<"I", "n", "f", "i", "n", "i", "t", "y">>
HasPrefix(str, prefix) ==
  Len(str) >= Len(prefix) /\ SubSeq(str, 1, Len(prefix)) = prefix

NaN == [t |-> "NaN", neg |-> FALSE, int |-> <<>>, frac |-> <<>>]
Infinite(neg) == [t |-> "Infinity", neg |-> neg, int |-> <<>>, frac |-> <<>>]
Finite(neg, int, frac) == [t |-> "finite", neg |-> neg, int |-> int, frac |-> frac]

\* parseFloat(v): the longest prefix of the trimmed text that is a decimal
\* literal (sign, Infinity or digits with an optional fraction; texts with
\* an exponent are not among the inputs), NaN when there is none
parseFloat(v) ==
  LET str == TrimStart(JsToString(v))
      signed == str # <<>> /\ Head(str) \in {"+", "-"}
      neg == str # <<>> /\ Head(str) = "-"
      body == IF signed THEN Tail(str) ELSE str
      int == LeadingDigits(body)
      rest == SubSeq(body, Len(int) + 1, Len(body))
      frac == IF rest # <<>> /\ Head(rest) = "." THEN LeadingDigits(Tail(rest)) ELSE <<>>
  IN IF HasPrefix(body, InfinityChars) THEN Infinite(neg)
     ELSE IF int = <<>> /\ frac = <<>> THEN NaN
     ELSE Finite(neg, int, frac)

isNaN(x) == x.t = "NaN"

\* !v for the values a link field can hold
Falsy(v) == v.t \in {"null", "undefined"} \/ (v.t = "string" /\ v.v = <<>>)

MissingIdPrefix == <<"m", "i", "s", "s", "i", "n", "g", "-", "i", "d", "-">>
ARItemPrefix == <<"A", "R", " ", "I", "t", "e", "m", " ">>
Naamloos == <<"N", "a", "a", "m", "l", "o", "o", "s">>

\* an item is skipped only when both of its coordinates are invalid
GeoItem_BothInvalid(st, element, index) ==
  LET rawLat == getRobustValue(element, "locationLatitude", DomNull)
      rawLong == getRobustValue(element, "locationLongitude", DomNull)
      locationID == getRobustValue(element, "locationID",
                                   DomString(MissingIdPrefix \o NatToChars(index)))
      locationLat == parseFloat(rawLat)
      locationLong == parseFloat(rawLong)
      feature == [type |-> DomUndefined,
                  coordinates |-> <<locationLong, locationLat>>,
                  id |-> locationID,
                  arrayID |-> index,
                  name |-> getRobustValue(element, "name", DomString(Naamloos)),
                  link_ar_mobile |-> DomUndefined,
                  link_ar_desktop |-> DomUndefined]
  IN IF isNaN(locationLat) /\ isNaN(locationLong)
       THEN [st EXCEPT !.skipped = @ + 1]
     ELSE IF ~\E i \in DOMAIN st.features : st.features[i].id = locationID
       THEN [st EXCEPT !.features = Append(@, feature), !.loaded = @ + 1]
     ELSE [st EXCEPT !.skipped = @ + 1]

\* an item with valid coordinates is added without the duplicate check
GeoItem_NoDuplicateCheck(st, element, index) ==
  LET rawLat == getRobustValue(element, "locationLatitude", DomNull)
      rawLong == getRobustValue(element, "locationLongitude", DomNull)
      locationID == getRobustValue(element, "locationID",
                                   DomString(MissingIdPrefix \o NatToChars(index)))
      locationLat == parseFloat(rawLat)
      locationLong == parseFloat(rawLong)
      feature == [type |-> DomUndefined,
                  coordinates |-> <<locationLong, locationLat>>,
                  id |-> locationID,
                  arrayID |-> index,
                  name |-> getRobustValue(element, "name", DomString(Naamloos)),
                  link_ar_mobile |-> DomUndefined,
                  link_ar_desktop |-> DomUndefined]
  IN IF isNaN(locationLat) \/ isNaN(locationLong)
       THEN [st EXCEPT !.skipped = @ + 1]
     ELSE [st EXCEPT !.features = Append(@, feature), !.loaded = @ + 1]

\* one iteration of the forEach of getGeoData; st holds the feature list
\* and the two counters
GeoItem(st, element, index) ==
  LET rawLat == getRobustValue(element, "locationLatitude", DomNull)
      rawLong == getRobustValue(element, "locationLongitude", DomNull)
      locationID == getRobustValue(element, "locationID",
                                   DomString(MissingIdPrefix \o NatToChars(index)))
      locationLat == parseFloat(rawLat)
      locationLong == parseFloat(rawLong)
      feature == [type |-> DomUndefined,
                  coordinates |-> <<locationLong, locationLat>>,
                  id |-> locationID,
                  arrayID |-> index,
                  name |-> getRobustValue(element, "name", DomString(Naamloos)),
                  link_ar_mobile |-> DomUndefined,
                  link_ar_desktop |-> DomUndefined]
  IN IF isNaN(locationLat) \/ isNaN(locationLong)
       THEN [st EXCEPT !.skipped = @ + 1]
     ELSE IF ~\E i \in DOMAIN st.features : st.features[i].id = locationID
       THEN [st EXCEPT !.features = Append(@, feature), !.loaded = @ + 1]
     ELSE [st EXCEPT !.skipped = @ + 1]

\* an AR item is added without the check of its links
ARItem_NoLinkCheck(st, element, index) ==
  LET rawLat == getRobustValue(element, "latitude_ar", DomNull)
      rawLong == getRobustValue(element, "longitude_ar", DomNull)
      name_ar == getRobustValue(element, "name_ar",
                                DomString(ARItemPrefix \o NatToChars(index)))
      latitude_ar == parseFloat(rawLat)
      longitude_ar == parseFloat(rawLong)
      link_ar_mobile == getRobustValue(element, "link_ar_mobile", DomNull)
      link_ar_desktop == getRobustValue(element, "link_ar_desktop", DomNull)
      feature == [type |-> DomString(<<"a", "r">>),
                  coordinates |-> <<longitude_ar, latitude_ar>>,
                  id |-> DomUndefined,
                  arrayID |-> st.startIndex + index,
                  name |-> name_ar,
                  link_ar_mobile |-> link_ar_mobile,
                  link_ar_desktop |-> link_ar_desktop]
  IN IF isNaN(latitude_ar) \/ isNaN(longitude_ar)
       THEN [st EXCEPT !.skipped = @ + 1]
     ELSE [st EXCEPT !.features = Append(@, feature), !.loaded = @ + 1]

\* one iteration of the forEach of getARData
ARItem(st, element, index) ==
  LET rawLat == getRobustValue(element, "latitude_ar", DomNull)
      rawLong == getRobustValue(element, "longitude_ar", DomNull)
      name_ar == getRobustValue(element, "name_ar",
                                DomString(ARItemPrefix \o NatToChars(index)))
      latitude_ar == parseFloat(rawLat)
      longitude_ar == parseFloat(rawLong)
      link_ar_mobile == getRobustValue(element, "link_ar_mobile", DomNull)
      link_ar_desktop == getRobustValue(element, "link_ar_desktop", DomNull)
      feature == [type |-> DomString(<<"a", "r">>),
                  coordinates |-> <<longitude_ar, latitude_ar>>,
                  id |-> DomUndefined,
                  arrayID |-> st.startIndex + index,
                  name |-> name_ar,
                  link_ar_mobile |-> link_ar_mobile,
                  link_ar_desktop |-> link_ar_desktop]
  IN IF isNaN(latitude_ar) \/ isNaN(longitude_ar)
       THEN [st EXCEPT !.skipped = @ + 1]
     ELSE IF Falsy(link_ar_mobile) /\ Falsy(link_ar_desktop)
       THEN [st EXCEPT !.skipped = @ + 1]
     ELSE [st EXCEPT !.features = Append(@, feature), !.loaded = @ + 1]

\* forEach((element, index) => ...) over the element children
RECURSIVE GeoEach(_, _, _)
GeoEach(st, items, index) ==
  IF index >= Len(items) THEN st
  ELSE GeoEach(GeoItem(st, items[index + 1], index), items, index + 1)

RECURSIVE AREach(_, _, _)
AREach(st, items, index) ==
  IF index >= Len(items) THEN st
  ELSE AREach(ARItem(st, items[index + 1], index), items, index + 1)

\* getGeoData(): returns at once when the container is missing
getGeoData(feats, list) ==
  LET st == [features |-> feats, loaded |-> 0, skipped |-> 0, ran |-> list.present]
  IN IF ~list.present THEN st ELSE GeoEach(st, list.items, 0)

\* getARData()
getARData(feats, list) ==
  LET st == [features |-> feats, loaded |-> 0, skipped |-> 0, ran |-> list.present,
             startIndex |-> Len(feats)]
  IN IF ~list.present THEN st ELSE AREach(st, list.items, 0)

(***************************************************************************)
(* Part II: the CMS items of the page, initial state and actions           *)
(***************************************************************************)
OkLat == <<"5", "0", ".", "8", "8">>
OkLong == <<"5", ".", "9", "7">>

GeoRecord(lat, long, id) ==
  [locationLatitude |-> lat, locationLongitude |-> long, locationID |-> id,
   name |-> Absent]

GeoRecords ==
  {GeoRecord(Value(OkLat), Value(OkLong), Value(<<"a">>)),
   GeoRecord(Value(<<" ", "5", "1">>), Value(OkLong), Value(<<"b">>)),
   GeoRecord(Value(OkLat), Value(OkLong), Absent),
   GeoRecord(Absent, Value(OkLong), Value(<<"a">>)),
   GeoRecord(Value(OkLat), Value(<<"a", "b", "c">>), Value(<<"a">>)),
   GeoRecord(Value(<<"I", "n", "f", "i", "n", "i", "t", "y">>), Value(OkLong), Value(<<"c">>))}

ARRecord(lat, long, name, mobile, desktop) ==
  [latitude_ar |-> lat, longitude_ar |-> long, name_ar |-> name,
   link_ar_mobile |-> mobile, link_ar_desktop |-> desktop]

Url == <<"u", "r", "l">>

ARRecords ==
  {ARRecord(Value(OkLat), Value(OkLong), Value(<<"n">>), Value(Url), Absent),
   ARRecord(Value(OkLat), Value(OkLong), Value(<<"n">>), Absent, Value(Url)),
   ARRecord(Value(OkLat), Value(OkLong), Absent, Value(Url), Value(Url)),
   ARRecord(Value(OkLat), Value(OkLong), Value(<<"n">>), Absent, Absent),
   ARRecord(Value(OkLat), Value(OkLong), Value(<<"n">>), Value(<<>>), NoProperty),
   ARRecord(Value(<<>>), Value(OkLong), Value(<<"n">>), Value(Url), Absent),
   ARRecord(Value(OkLat), Value(<<"-", "I", "n", "f", "i", "n", "i", "t", "y">>),
            Value(<<"n">>), Value(Url), Absent)}

RECURSIVE SeqsOfLen(_, _)
SeqsOfLen(S, n) ==
  IF n = 0 THEN {<<>>}
  ELSE {Append(q, x) : q \in SeqsOfLen(S, n - 1), x \in S}

NoContainer == [present |-> FALSE, items |-> <<>>]
Container(items) == [present |-> TRUE, items |-> items]

LoaderInit ==
  /\ \E g \in 0..MaxRecords : \E a \in 0..(MaxRecords - g) :
       /\ locationList \in {Container(q) : q \in SeqsOfLen(GeoRecords, g)}
                             \cup IF g = 0 THEN {NoContainer} ELSE {}
       /\ arList \in {Container(q) : q \in SeqsOfLen(ARRecords, a)}
                       \cup IF a = 0 THEN {NoContainer} ELSE {}
  /\ features = <<>>
  /\ geoLog = [ran |-> FALSE, loaded |-> 0, skipped |-> 0]
  /\ arLog = [ran |-> FALSE, loaded |-> 0, skipped |-> 0, startIndex |-> 0]
  /\ loads = 0

\* loadLocationData() without the reset of the collection
loadLocationData_NoReset(feats, geoList, arItems) ==
  LET geo == getGeoData(feats, geoList)
      ar == getARData(geo.features, arItems)
  IN [features |-> ar.features,
      geoLog |-> [ran |-> geo.ran, loaded |-> geo.loaded, skipped |-> geo.skipped],
      arLog |-> [ran |-> ar.ran, loaded |-> ar.loaded, skipped |-> ar.skipped,
                 startIndex |-> ar.startIndex]]

\* loadLocationData(): state.mapLocations.features = [], then getGeoData()
\* and getARData() append to the collection
loadLocationData(feats, geoList, arItems) ==
  LET reset == <<>>
      geo == getGeoData(reset, geoList)
      ar == getARData(geo.features, arItems)
  IN [features |-> ar.features,
      geoLog |-> [ran |-> geo.ran, loaded |-> geo.loaded, skipped |-> geo.skipped],
      arLog |-> [ran |-> ar.ran, loaded |-> ar.loaded, skipped |-> ar.skipped,
                 startIndex |-> ar.startIndex]]

\* the DOMContentLoaded listener, or any later caller, runs loadLocationData()
LoadLocationData ==
  /\ loads < MaxLoads
  /\ LET r == loadLocationData(features, locationList, arList)
     IN /\ features' = r.features
        /\ geoLog' = r.geoLog
        /\ arLog' = r.arLog
  /\ loads' = loads + 1
  /\ UNCHANGED <<locationList, arList>>
  /\ UNCHANGED <<filterVars, eventVars, geoVars, tourVars>>

FilterIdle ==
  /\ PageInit
  /\ storage = NoItem
  /\ saved = [valid |-> FALSE, set |-> {}]
  /\ lastToggle = NoToggle

InitLoader == LoaderInit /\ FilterIdle /\ EventIdle /\ GeoIdle /\ TourIdle

NextLoader == LoadLocationData

SpecLoader == InitLoader /\ [][NextLoader]_vars

(***************************************************************************)
(* Part II: properties                                                     *)
(***************************************************************************)
GeoIndices == 0..(Len(locationList.items) - 1)
ARIndices == 0..(Len(arList.items) - 1)
GeoElement(i) == locationList.items[i + 1]
ARElement(i) == arList.items[i + 1]

\* the record at index i of its list has a feature in the collection
GeoInCollection(i) ==
  \E k \in DOMAIN features :
    features[k].type = DomUndefined /\ features[k].arrayID = i
ARInCollection(i) ==
  \E k \in DOMAIN features :
    features[k].type # DomUndefined /\ features[k].arrayID = arLog.startIndex + i

\* texts that hold no number
NonNumericTexts == {<<>>, <<"a", "b", "c">>, <<"n", "u", "l", "l">>}

\* a coordinate that is missing or does not parse to a number
NoNumber(field) == field.kind # "value" \/ field.value \in NonNumericTexts

GeoBadCoordinates(i) ==
  NoNumber(GeoElement(i).locationLatitude) \/ NoNumber(GeoElement(i).locationLongitude)
ARBadCoordinates(i) ==
  NoNumber(ARElement(i).latitude_ar) \/ NoNumber(ARElement(i).longitude_ar)

\* C7: after a load pass no record with a missing or non-numeric latitude
\* or longitude is in the collection, and the skipped counter of each pass
\* is the number of records of its list that are not in the collection.
C7_BadCoordinatesSkipped ==
  loads > 0 =>
    /\ \A i \in GeoIndices : GeoBadCoordinates(i) => ~GeoInCollection(i)
    /\ \A i \in ARIndices : ARBadCoordinates(i) => ~ARInCollection(i)
    /\ geoLog.skipped = Cardinality({i \in GeoIndices : ~GeoInCollection(i)})
    /\ arLog.skipped = Cardinality({i \in ARIndices : ~ARInCollection(i)})

\* a load skipped a location record with a bad longitude and an AR record
\* with a bad latitude, and loaded a location record
C7_Witness ==
  /\ loads > 0
  /\ \E i \in GeoIndices :
       GeoElement(i).locationLongitude = Value(<<"a", "b", "c">>) /\ ~GeoInCollection(i)
  /\ \E i \in ARIndices : ARElement(i).latitude_ar = Value(<<>>) /\ ~ARInCollection(i)
  /\ \E i \in GeoIndices : GeoInCollection(i)
  /\ geoLog.skipped = 1
  /\ arLog.skipped = 1

\* C8: every feature of the collection has a finite longitude and latitude.
C8_FiniteCoordinates ==
  \A k \in DOMAIN features :
    features[k].coordinates[1].t = "finite" /\ features[k].coordinates[2].t = "finite"

\* the id a location record is loaded under
EffectiveId(i) ==
  IF GeoElement(i).locationID.kind = "value"
    THEN GeoElement(i).locationID.value
    ELSE MissingIdPrefix \o NatToChars(i)

\* C9 as claimed: no two features share an id, of two records with the
\* same id only the first is in the collection, and the skipped counter
\* counts the dropped ones.
C9_UniqueIdsFirstWins ==
  loads > 0 =>
    /\ \A j, k \in DOMAIN features : j # k => features[j].id # features[k].id
    /\ \A i, j \in GeoIndices :
         (i < j /\ EffectiveId(i) = EffectiveId(j)) =>
           (GeoInCollection(i) /\ ~GeoInCollection(j))
    /\ geoLog.skipped = Cardinality({i \in GeoIndices : ~GeoInCollection(i)})

\* C9 amended: no two features that carry an id share it; a location record
\* with valid coordinates is in the collection iff no earlier record with
\* its id is in the collection; every record dropped as a duplicate adds
\* one to the skipped counter.  AR features carry no id.
C9_UniqueIdsAmongLoaded ==
  loads > 0 =>
    /\ \A j, k \in DOMAIN features :
         (j # k /\ features[j].id # DomUndefined /\ features[k].id # DomUndefined)
           => features[j].id # features[k].id
    /\ \A k \in DOMAIN features :
         features[k].id = DomUndefined <=> features[k].type # DomUndefined
    /\ \A j \in GeoIndices :
         ~GeoBadCoordinates(j) =>
           (GeoInCollection(j) <=>
              ~\E i \in GeoIndices :
                 i < j /\ EffectiveId(i) = EffectiveId(j) /\ GeoInCollection(i))
    /\ geoLog.skipped =
         Cardinality({i \in GeoIndices : GeoBadCoordinates(i)})
           + Cardinality({i \in GeoIndices : ~GeoBadCoordinates(i) /\ ~GeoInCollection(i)})

\* a load dropped a duplicate of a loaded record, and loaded a record
\* whose id an earlier record with bad coordinates also had
C9_Witness ==
  /\ loads > 0
  /\ \E i, j \in GeoIndices :
       /\ i < j /\ EffectiveId(i) = EffectiveId(j)
       /\ GeoInCollection(i) /\ ~GeoBadCoordinates(j) /\ ~GeoInCollection(j)
  /\ \E i, j \in GeoIndices :
       /\ i < j /\ EffectiveId(i) = EffectiveId(j)
       /\ GeoBadCoordinates(i) /\ GeoInCollection(j)

NoElement(field) == field.kind = "absent"
NoLink(field) == field.kind # "value" \/ field.value = <<>>

\* C10 as claimed: a location record without id element, an AR record
\* without name element and an AR record without links are never in the
\* collection, and the skipped counters count them.
C10_MissingRequiredSkipped ==
  loads > 0 =>
    /\ \A i \in GeoIndices : NoElement(GeoElement(i).locationID) => ~GeoInCollection(i)
    /\ \A i \in ARIndices : NoElement(ARElement(i).name_ar) => ~ARInCollection(i)
    /\ \A i \in ARIndices :
         (NoLink(ARElement(i).link_ar_mobile) /\ NoLink(ARElement(i).link_ar_desktop))
           => ~ARInCollection(i)
    /\ geoLog.skipped = Cardinality({i \in GeoIndices : ~GeoInCollection(i)})
    /\ arLog.skipped = Cardinality({i \in ARIndices : ~ARInCollection(i)})

\* C10 amended: a location record without id element is loaded under the
\* id missing-id-<index> (when its coordinates are valid and no loaded
\* record has that id), an AR record without name element is loaded under
\* the name "AR Item <index>" (when its coordinates are valid and it has a
\* link); an AR record without links is never in the collection; the
\* skipped counters count the records that are not in the collection.
C10_MissingRequiredHandling ==
  loads > 0 =>
    /\ \A i \in GeoIndices :
         (/\ NoElement(GeoElement(i).locationID)
          /\ ~GeoBadCoordinates(i)
          /\ ~\E j \in GeoIndices : j < i /\ EffectiveId(j) = EffectiveId(i))
           => \E k \in DOMAIN features :
                /\ features[k].type = DomUndefined
                /\ features[k].arrayID = i
                /\ features[k].id = DomString(MissingIdPrefix \o NatToChars(i))
    /\ \A i \in ARIndices :
         (/\ NoElement(ARElement(i).name_ar)
          /\ ~ARBadCoordinates(i)
          /\ ~(NoLink(ARElement(i).link_ar_mobile) /\ NoLink(ARElement(i).link_ar_desktop)))
           => \E k \in DOMAIN features :
                /\ features[k].type # DomUndefined
                /\ features[k].arrayID = arLog.startIndex + i
                /\ features[k].name = DomString(ARItemPrefix \o NatToChars(i))
    /\ \A i \in ARIndices :
         (NoLink(ARElement(i).link_ar_mobile) /\ NoLink(ARElement(i).link_ar_desktop))
           => ~ARInCollection(i)
    /\ geoLog.skipped = Cardinality({i \in GeoIndices : ~GeoInCollection(i)})
    /\ arLog.skipped = Cardinality({i \in ARIndices : ~ARInCollection(i)})

\* a load took a location record without id and an AR record without name
\* into the collection and skipped an AR record without links
C10_Witness ==
  /\ loads > 0
  /\ \E i \in GeoIndices : NoElement(GeoElement(i).locationID) /\ GeoInCollection(i)
  /\ \E i \in ARIndices : NoElement(ARElement(i).name_ar) /\ ARInCollection(i)
  /\ \E i \in ARIndices :
       /\ NoLink(ARElement(i).link_ar_mobile) /\ NoLink(ARElement(i).link_ar_desktop)
       /\ ~ARBadCoordinates(i) /\ ~ARInCollection(i)
       /\ arLog.skipped = 1

\* C11: after any number n >= 1 of loadLocationData() runs the collection is
\* the one a single run on an empty collection builds: every feature of it
\* comes from the last run and none is there twice.
C11_ReloadRebuilds ==
  loads >= 1 =>
    /\ features = loadLocationData(<<>>, locationList, arList).features
    /\ Len(features) = geoLog.loaded + arLog.loaded
    /\ arLog.startIndex = geoLog.loaded

\* a second run has rebuilt a collection that holds a location feature and
\* an AR feature
C11_Witness ==
  /\ loads >= 2
  /\ \E i \in GeoIndices : GeoInCollection(i)
  /\ \E i \in ARIndices : ARInCollection(i)
  /\ Len(features) = 2

(***************************************************************************)
(* Part III: state manager and event bus.  A machine M holds the two       *)
(* singletons while an operation runs; M.exc is an exception in flight,    *)
(* M.trace the calls and emissions so far.                                 *)
(***************************************************************************)
MaxRegistered == 3

\* callbacks given to subscribe(): one that returns, one that throws, and
\* one that calls setActivePopup(p1) when the map is loaded and no popup
\* is active
SubscriberCallbacks == {"plain", "throws", "opens"}

\* handlers given to on() and once(): one that returns, one that throws,
\* and one that emits its event again unless the data is "nested"
Handlers == {"plain", "throws", "emits"}

\* trace entries: a subscriber call within mutation n, an emission of
\* event e with data by mutation n (0: emit() called directly), a call of
\* the handler registered as w
SubEntry(cb, n) == [k |-> "sub", e |-> "", who |-> cb, id |-> 0, n |-> n]
EmitEntry(e, data, n) == [k |-> "emit", e |-> e, who |-> data, id |-> 0, n |-> n]
CallEntry(e, w) == [k |-> "call", e |-> e, who |-> w.h, id |-> w.id, n |-> 0]
Logged(M, entry) == [M EXCEPT !.trace = Append(@, entry)]

Machine ==
  [state |-> sm, subscribers |-> subscribers, listeners |-> listeners,
   trace |-> <<>>, exc |-> FALSE, sets |-> 1, mutations |-> 0,
   openPopups |-> openPopups, hideTimers |-> hideTimers]

\* on(event, handler): Set.add of the handler itself (id 0)
on(M, e, h) ==
  [M EXCEPT !.listeners[e] = SetAdd(@, [h |-> h, id |-> 0])]

\* once(event, handler): on() of a new wrapper closure (id > 0)
once(M, e, h) ==
  LET used == UNION {{w.id : w \in Members(M.listeners[x])} : x \in EventNames}
      fresh == CHOOSE i \in 1..(Cardinality(used) + 1) : i \notin used
  IN [M EXCEPT !.listeners[e] = SetAdd(@, [h |-> h, id |-> fresh])]

\* off(event, handler), also the unsubscribe function on() returns
off(M, e, w) == [M EXCEPT !.listeners[e] = SetDelete(@, w)]

\* removeAllListeners(event)
removeAllListeners(M, e) == [M EXCEPT !.listeners[e] = <<>>]

RECURSIVE emit(_, _, _, _)
\* the call of one registered handler; a once() wrapper calls the handler
\* and then off(event, wrapper), which a throwing handler never reaches
HandlerCall(M, e, w, data) ==
  LET M1 == Logged(M, CallEntry(e, w))
      M2 == CASE w.h = "plain" -> M1
              [] w.h = "throws" -> [M1 EXCEPT !.exc = TRUE]
              [] w.h = "emits" ->
                   IF data # "nested" THEN emit(M1, e, "nested", 0) ELSE M1
  IN IF w.id = 0 \/ M2.exc THEN M2 ELSE off(M2, e, w)

\* handlers.forEach(handler => { try { handler(data) } catch {} }): Set
\* iteration skips a handler deleted before its turn
RECURSIVE EmitLoop(_, _, _, _)
EmitLoop(M, e, data, pending) ==
  IF pending = <<>> THEN M
  ELSE IF ~SetHas(M.listeners[e], Head(pending))
    THEN EmitLoop(M, e, data, Tail(pending))
  ELSE EmitLoop([HandlerCall(M, e, Head(pending), data) EXCEPT !.exc = FALSE],
                e, data, Tail(pending))

\* emit(event, data) as mutation n's derived event (n = 0: called directly)
emit(M, e, data, n) ==
  EmitLoop(Logged(M, EmitEntry(e, data, n)), e, data, M.listeners[e])

\* emitStateChangeEvents(previous, current), current being this.state
emitStateChangeEvents(M, previous, n) ==
  LET A == IF ~previous.mapLoaded /\ M.state.mapLoaded
             THEN emit(M, Events.MAP_LOADED, "map", n) ELSE M
      B == IF A.exc \/ previous.activePopup = A.state.activePopup THEN A
           ELSE IF A.state.activePopup # "null"
             THEN emit(A, Events.POPUP_OPENED, A.state.activePopup, n)
           ELSE IF previous.activePopup # "null"
             THEN emit(A, Events.POPUP_CLOSED, previous.activePopup, n)
           ELSE A
  IN IF B.exc \/ previous.activeFilters = B.state.activeFilters THEN B
     ELSE emit(B, Events.FILTER_CHANGED, "filters", n)

\* Object.assign(this.state, updates)
Assign(state, updates) ==
  [f \in DOMAIN state |-> IF f \in DOMAIN updates THEN updates[f] ELSE state[f]]

RECURSIVE setState(_, _)
\* the call of one subscriber with this.state
SubscriberCall(M, cb, n) ==
  LET M1 == Logged(M, SubEntry(cb, n))
  IN CASE cb = "plain" -> M1
       [] cb = "throws" -> [M1 EXCEPT !.exc = TRUE]
       [] cb = "opens" ->
            IF M1.state.mapLoaded /\ M1.state.activePopup = "null"
              THEN setState(M1, [activePopup |-> "p1"]) ELSE M1

\* subscribers.forEach without the try/catch
RECURSIVE NotifyLoop_NoCatch(_, _, _)
NotifyLoop_NoCatch(M, pending, n) ==
  IF pending = <<>> \/ M.exc THEN M
  ELSE NotifyLoop_NoCatch(SubscriberCall(M, Head(pending), n), Tail(pending), n)

\* subscribers.forEach(callback => { try { callback(this.state) } catch {} })
RECURSIVE NotifyLoop(_, _, _)
NotifyLoop(M, pending, n) ==
  IF pending = <<>> THEN M
  ELSE NotifyLoop([SubscriberCall(M, Head(pending), n) EXCEPT !.exc = FALSE],
                  Tail(pending), n)

\* setState with the events emitted before the subscribers are notified
setState_EmitFirst(M, updates) ==
  LET previousState == M.state
      n == M.mutations + 1
      M1 == [M EXCEPT !.state = Assign(@, updates), !.mutations = n]
      M2 == emitStateChangeEvents(M1, previousState, n)
  IN NotifyLoop(M2, M2.subscribers, n)

\* setState(updates): snapshot, assign, notify, emit
setState(M, updates) ==
  LET previousState == M.state
      n == M.mutations + 1
      M1 == [M EXCEPT !.state = Assign(@, updates), !.mutations = n]
      M2 == NotifyLoop(M1, M1.subscribers, n)
  IN IF M2.exc THEN M2 ELSE emitStateChangeEvents(M2, previousState, n)

\* new Set(...): an object no reference held so far is identical to
NewSetObject(M) == M.sets + 1

\* setActiveFilters(filters), clearFilters(), addFilter, removeFilter
setActiveFiltersTo(M) ==
  setState([M EXCEPT !.sets = NewSetObject(M)], [activeFilters |-> NewSetObject(M)])

\* reset(): a new state object, then the subscribers; no events
reset(M) ==
  LET n == M.mutations + 1
      M1 == [M EXCEPT !.state = [InitialState EXCEPT !.activeFilters = NewSetObject(M)],
                      !.sets = NewSetObject(M), !.mutations = n]
  IN NotifyLoop(M1, M1.subscribers, n)

(***************************************************************************)
(* Part III: actions                                                       *)
(***************************************************************************)
RECURSIVE SumLen(_, _)
SumLen(f, S) ==
  IF S = {} THEN 0
  ELSE LET x == CHOOSE y \in S : TRUE IN Len(f[x]) + SumLen(f, S \ {x})

\* subscribers and handlers registered
Registered == Len(subscribers) + SumLen(listeners, EventNames)

Call(name, arg) == [name |-> name, arg |-> arg, threw |-> FALSE]

\* what an operation leaves; the Set objects are renumbered so that 0 is
\* the one the operation found and 1 one it created
Done(M, call) ==
  /\ sm' = [M.state EXCEPT !.activeFilters = IF @ = sm.activeFilters THEN 0 ELSE 1]
  /\ pre' = [sm EXCEPT !.activeFilters = 0]
  /\ subscribers' = M.subscribers
  /\ listeners' = M.listeners
  /\ trace' = M.trace
  /\ smOp' = [call EXCEPT !.threw = M.exc]
  /\ openPopups' = M.openPopups
  /\ hideTimers' = M.hideTimers
  /\ UNCHANGED <<filterVars, loaderVars, geoVars, tourVars>>

Subscribe(cb) ==
  /\ Registered < MaxRegistered
  /\ ~SetHas(subscribers, cb)
  /\ Done([Machine EXCEPT !.subscribers = SetAdd(@, cb)], Call("subscribe", cb))

Unsubscribe(cb) ==
  /\ SetHas(subscribers, cb)
  /\ Done([Machine EXCEPT !.subscribers = SetDelete(@, cb)], Call("unsubscribe", cb))

On(e, h) ==
  /\ Registered < MaxRegistered
  /\ ~SetHas(listeners[e], [h |-> h, id |-> 0])
  /\ Done(on(Machine, e, h), Call("on", e))

Once(e, h) ==
  /\ Registered < MaxRegistered
  /\ Done(once(Machine, e, h), Call("once", e))

Off(e, w) ==
  /\ SetHas(listeners[e], w)
  /\ Done(off(Machine, e, w), Call("off", e))

RemoveAllListeners(e) ==
  /\ listeners[e] # <<>>
  /\ Done(removeAllListeners(Machine, e), Call("removeAllListeners", e))

Emit(e) == Done(emit(Machine, e, "", 0), Call("emit", e))

SetMapLoaded(loaded) ==
  Done(setState(Machine, [mapLoaded |-> loaded]),
       Call("setMapLoaded", IF loaded THEN "true" ELSE "false"))

SetActivePopup(popup) ==
  Done(setState(Machine, [activePopup |-> popup]), Call("setActivePopup", popup))

SetMarkersAdded(added) ==
  Done(setState(Machine, [markersAdded |-> added]),
       Call("setMarkersAdded", IF added THEN "true" ELSE "false"))

SetActiveFilters == Done(setActiveFiltersTo(Machine), Call("setActiveFilters", ""))

Reset == Done(reset(Machine), Call("reset", ""))

InitState == EventIdle /\ FilterIdle /\ LoaderIdle /\ GeoIdle /\ TourIdle

NextState ==
  \/ \E cb \in SubscriberCallbacks : Subscribe(cb)
  \/ \E cb \in SubscriberCallbacks : Unsubscribe(cb)
  \/ \E e \in EventNames : \E h \in {"plain", "throws"} : On(e, h)
  \/ \E e \in EventNames : \E w \in Members(listeners[e]) : Off(e, w)
  \/ \E e \in EventNames : Emit(e)
  \/ \E b \in BOOLEAN : SetMapLoaded(b)
  \/ \E q \in Popups \cup {"null"} : SetActivePopup(q)
  \/ \E b \in BOOLEAN : SetMarkersAdded(b)
  \/ SetActiveFilters
  \/ Reset

SpecState == InitState /\ [][NextState]_vars

\* the event bus alone, on two of its events
BusEvents == {Events.POPUP_OPENED, Events.FILTER_CHANGED}

NextBus ==
  \/ \E e \in BusEvents : \E h \in Handlers : On(e, h)
  \/ \E e \in BusEvents : \E h \in Handlers : Once(e, h)
  \/ \E e \in BusEvents : \E w \in Members(listeners[e]) : Off(e, w)
  \/ \E e \in BusEvents : RemoveAllListeners(e)
  \/ \E e \in BusEvents : Emit(e)

SpecBus == InitState /\ [][NextBus]_vars

(***************************************************************************)
(* Part III: properties                                                    *)
(***************************************************************************)
Setters == {"setMapLoaded", "setActivePopup", "setMarkersAdded", "setActiveFilters"}

\* the mutations the last operation ran: its own (1) and the nested ones
MutationIds == {1} \cup ({trace[i].n : i \in DOMAIN trace} \ {0})

\* the subscribers mutation n called, in call order
SubsOf(n) ==
  LET q == SelectSeq(trace, LAMBDA x : x.k = "sub" /\ x.n = n)
  IN [i \in DOMAIN q |-> q[i].who]

\* the events mutation n emitted, in order
EmittedBy(n) == SelectSeq(trace, LAMBDA x : x.k = "emit" /\ x.n = n)

\* every mutation called every subscriber, in registration order
AllSubscribersCalled == \A n \in MutationIds : SubsOf(n) = subscribers

\* every emission is followed by the calls of the event's handlers, in
\* registration order
AllHandlersCalled ==
  \A i \in DOMAIN trace :
    trace[i].k = "emit" =>
      LET hs == listeners[trace[i].e]
      IN /\ i + Len(hs) <= Len(trace)
         /\ \A j \in DOMAIN hs : trace[i + j] = CallEntry(trace[i].e, hs[j])

\* C12: within each mutation of a setter or reset() every subscriber is
\* called, in registration order, before any event of that mutation is
\* emitted, and every emission is followed at once by the calls of all the
\* event's handlers in registration order, all before the operation ends.
C12_NotifyBeforeEmit ==
  /\ smOp.name \in Setters \cup {"reset"} =>
       /\ AllSubscribersCalled
       /\ \A i, j \in DOMAIN trace :
            (trace[i].k = "emit" /\ trace[j].k = "sub" /\ trace[i].n = trace[j].n)
              => j < i
  /\ smOp.name \in Setters \cup {"reset", "emit"} => AllHandlersCalled

\* setActivePopup ran with two subscribers and a handler of popup:opened:
\* both subscribers, then the emission, then the handler
C12_Witness ==
  /\ smOp.name = "setActivePopup"
  /\ Len(subscribers) = 2
  /\ Len(trace) = 4
  /\ trace[1].k = "sub" /\ trace[2].k = "sub"
  /\ trace[3].k = "emit" /\ trace[3].e = Events.POPUP_OPENED
  /\ trace[4].k = "call"

\* the events the transition from previous to current derives
Derived(previous, current, n) ==
  (IF ~previous.mapLoaded /\ current.mapLoaded
     THEN <<EmitEntry(Events.MAP_LOADED, "map", n)>> ELSE <<>>)
  \o (IF previous.activePopup # current.activePopup /\ current.activePopup # "null"
        THEN <<EmitEntry(Events.POPUP_OPENED, current.activePopup, n)>> ELSE <<>>)
  \o (IF previous.activePopup # "null" /\ current.activePopup = "null"
        THEN <<EmitEntry(Events.POPUP_CLOSED, previous.activePopup, n)>> ELSE <<>>)
  \o (IF previous.activeFilters # current.activeFilters
        THEN <<EmitEntry(Events.FILTER_CHANGED, "filters", n)>> ELSE <<>>)

\* a subscriber or a handler threw during the last operation
Threw == \E i \in DOMAIN trace : trace[i].k \in {"sub", "call"} /\ trace[i].who = "throws"

\* the update the last setter applied is in the state
Applied ==
  /\ smOp.name = "setMapLoaded" => sm.mapLoaded = (smOp.arg = "true")
  /\ smOp.name = "setMarkersAdded" => sm.markersAdded = (smOp.arg = "true")
  /\ smOp.name = "setActiveFilters" => sm.activeFilters = 1
  /\ (smOp.name = "setActivePopup" /\ smOp.arg # "null") => sm.activePopup = smOp.arg

\* C13: when a subscriber or handler threw during a setter, reset() or
\* emit(), the operation returned normally, every subscriber and every
\* handler of each emitted event was still called, a setter's update is in
\* the state and its derived events were emitted.
C13_FaultIsolation ==
  (Threw /\ smOp.name \in Setters \cup {"reset", "emit"}) =>
    /\ ~smOp.threw
    /\ AllHandlersCalled
    /\ smOp.name # "emit" => AllSubscribersCalled
    /\ smOp.name \in Setters => (Applied /\ EmittedBy(1) = Derived(pre, sm, 1))

\* setActivePopup(p2): the subscriber threw, popup:opened was emitted all
\* the same, its first handler threw and its second was called
C13_Witness ==
  /\ smOp = Call("setActivePopup", "p2")
  /\ sm.activePopup = "p2"
  /\ Len(trace) = 4
  /\ trace[1] = SubEntry("throws", 1)
  /\ trace[2] = EmitEntry(Events.POPUP_OPENED, "p2", 1)
  /\ trace[3].who = "throws"
  /\ trace[4].who = "plain"

\* C14: every public setter and reset() calls all subscribers and emits
\* the events the transition it caused derives.
C14_EveryMutationEmits ==
  smOp.name \in Setters \cup {"reset"} =>
    /\ AllSubscribersCalled
    /\ EmittedBy(1) = Derived(pre, sm, 1)

\* how often event e was emitted with data x during the last operation
Emissions(e, x) ==
  Cardinality({i \in DOMAIN trace :
                 trace[i].k = "emit" /\ trace[i].e = e /\ trace[i].who = x})

\* C15: setActivePopup(q) on previous handle p emits popup:opened(q) once
\* iff q is a popup other than p, popup:closed(p) once iff q is null and p
\* a popup, and no other popup event; the other setters emit no popup event.
C15_PopupEvents ==
  /\ smOp.name = "setActivePopup" =>
       \A x \in Popups :
         /\ Emissions(Events.POPUP_OPENED, x) =
              (IF x = smOp.arg /\ x # pre.activePopup THEN 1 ELSE 0)
         /\ Emissions(Events.POPUP_CLOSED, x) =
              (IF smOp.arg = "null" /\ x = pre.activePopup THEN 1 ELSE 0)
  /\ smOp.name \in Setters \ {"setActivePopup"} =>
       \A x \in Popups :
         Emissions(Events.POPUP_OPENED, x) + Emissions(Events.POPUP_CLOSED, x) = 0

\* C28: during one setter call, nested calls from subscribers included, no
\* derived event is emitted twice with the same data, and a change of
\* activePopup or mapLoaded that the call leaves behind was announced.
C28_OneEventPerChange ==
  smOp.name \in Setters =>
    /\ \A i, j \in DOMAIN trace :
         (trace[i].k = "emit" /\ trace[j].k = "emit"
            /\ trace[i].e = trace[j].e /\ trace[i].who = trace[j].who) => i = j
    /\ (sm.activePopup # pre.activePopup /\ sm.activePopup \in Popups) =>
         Emissions(Events.POPUP_OPENED, sm.activePopup) >= 1
    /\ (sm.mapLoaded /\ ~pre.mapLoaded) =>
         \E i \in DOMAIN trace : trace[i].k = "emit" /\ trace[i].e = Events.MAP_LOADED

\* C17: during an emit() every once() wrapper is called at most once and a
\* wrapper that was called is no longer registered afterwards.
C17_OnceAtMostOnce ==
  smOp.name = "emit" =>
    \A i \in DOMAIN trace :
      (trace[i].k = "call" /\ trace[i].id > 0) =>
        /\ \A j \in DOMAIN trace : trace[j] = trace[i] => j = i
        /\ ~SetHas(listeners[trace[i].e], [h |-> trace[i].who, id |-> trace[i].id])

(***************************************************************************)
(* Part IV: popups.  createPopup and closeActivePopup live in popups.js,   *)
(* which is not among the sources: they are modelled from the              *)
(* specification.                                                          *)
(***************************************************************************)
MaxTimers == 2

\* createPopup(location, map): removes the element of the active popup,
\* puts the new popup on the map and makes it the active one
createPopup(M, popup) ==
  LET closed == [M EXCEPT !.openPopups = @ \ {M.state.activePopup}]
  IN setState([closed EXCEPT !.openPopups = @ \cup {popup}], [activePopup |-> popup])

\* closeActivePopup(): removes the element of the active popup, if any
closeActivePopup(M) ==
  IF M.state.activePopup = "null" THEN M
  ELSE setState([M EXCEPT !.openPopups = @ \ {M.state.activePopup}],
                [activePopup |-> "null"])

\* map.on(dragstart | zoomstart | rotatestart | pitchstart): with an active
\* popup, fade it and setTimeout(..., 400)
InteractionHandler(M) ==
  IF M.state.activePopup = "null" THEN M
  ELSE [M EXCEPT !.hideTimers = Append(@, M.state.activePopup)]

\* the timeout callback with setActivePopup(null) only
HideTimeout_NoRemove(M) ==
  LET M1 == [M EXCEPT !.hideTimers = Tail(@)]
  IN IF M1.state.activePopup = "null" THEN [M1 EXCEPT !.exc = TRUE]
     ELSE setState(M1, [activePopup |-> "null"])

\* the timeout callback: state.activePopup!.remove(); setActivePopup(null).
\* With no active popup left the remove() call throws a TypeError
HideTimeout(M) ==
  LET M1 == [M EXCEPT !.hideTimers = Tail(@)]
  IN IF M1.state.activePopup = "null" THEN [M1 EXCEPT !.exc = TRUE]
     ELSE setState([M1 EXCEPT !.openPopups = @ \ {M1.state.activePopup}],
                   [activePopup |-> "null"])

\* a popup object no reference is held to
FreshPopups == Popups \ (openPopups \cup {sm.activePopup} \cup Members(hideTimers))

\* map 'click': on a feature createPopup, elsewhere closeActivePopup
MapClick(onFeature) ==
  IF onFeature
    THEN \E popup \in FreshPopups : Done(createPopup(Machine, popup), Call("click", popup))
    ELSE Done(closeActivePopup(Machine), Call("click", "null"))

\* window.HeerlenMap.closePopup()
ClosePopup == Done(closeActivePopup(Machine), Call("closePopup", ""))

MapInteraction(eventType) ==
  /\ Len(hideTimers) < MaxTimers
  /\ Done(InteractionHandler(Machine), Call(eventType, ""))

TimerFires ==
  /\ hideTimers # <<>>
  /\ Done(HideTimeout(Machine), Call("timeout", Head(hideTimers)))

InteractionEvents == {"dragstart", "zoomstart", "rotatestart", "pitchstart"}

\* the map's handlers, with handlers of the popup events on the bus
NextPopups ==
  \/ \E e \in {Events.POPUP_OPENED, Events.POPUP_CLOSED} : On(e, "plain")
  \/ \E e \in EventNames : \E w \in Members(listeners[e]) : Off(e, w)
  \/ \E onFeature \in BOOLEAN : MapClick(onFeature)
  \/ ClosePopup
  \/ \E eventType \in InteractionEvents : MapInteraction(eventType)
  \/ TimerFires

SpecPopups == InitState /\ [][NextPopups]_vars

\* C16: the popups on the map are the active popup and nothing else, so a
\* popup that replaces the active one finds the previous one removed.
C16_OnePopupOpen ==
  openPopups = IF sm.activePopup = "null" THEN {} ELSE {sm.activePopup}

\* a click on a feature has replaced the active popup by another one
C16_Witness ==
  /\ smOp.name = "click"
  /\ pre.activePopup \in Popups
  /\ sm.activePopup \in Popups \ {pre.activePopup}
  /\ openPopups = {sm.activePopup}

\* C27: a deferred removal that runs acts on the popup that was active when
\* its interaction event fired (smOp.arg): it does not throw, and a popup
\* that became active after the event stays active and on the map.
C27_DeferredRemovalOwnPopup ==
  smOp.name = "timeout" =>
    /\ ~smOp.threw
    /\ pre.activePopup # smOp.arg =>
         /\ sm.activePopup = pre.activePopup
         /\ pre.activePopup \in Popups => pre.activePopup \in openPopups

(***************************************************************************)
(* Part V.  Geolocation manager (GeolocationManager in part_002)           *)
(*                                                                         *)
(* A position is represented by what the handlers compute from it: its     *)
(* haversine distance to the boundary centre in metres, whether a location *)
(* lies within the 25 m search radius, and whether it is more than 50 m    *)
(* from the map centre.  The handlers thread a record R: the manager g and *)
(* what the running handler requested (camera flights, notification,       *)
(* come-back popup).                                                       *)
(*                                                                         *)
(* The fill opacity of the boundary-fill layer is counted in steps of      *)
(* 0.005.  g.frames holds the callbacks handed to requestAnimationFrame,   *)
(* each with the value of its loop's local opacity; a callback that is     *)
(* indistinguishable from one already waiting is kept once, at the later   *)
(* position, which leaves every property as the frame leaves it.  g.timers *)
(* counts the pending timeouts of the come-back popup; g.lastRequest is    *)
(* history: which of show / hide was asked for last.                       *)
(***************************************************************************)
\* config.js boundary radius 0.6 km, in metres
BoundaryRadius == 600

MaxNotifications == 1

Distances == {0, BoundaryRadius, BoundaryRadius + 1}

Positions == [distance : Distances, near : BOOLEAN, moved : BOOLEAN]

ErrorCodes == {1, 2}

isWithinBoundary(position) == position.distance <= BoundaryRadius

Run == [g |-> geoMgr, flights |-> {}, notified |-> FALSE, popupShown |-> FALSE]

flyTo(R, target) == [R EXCEPT !.flights = @ \cup {target}]

\* 0.03 and 0.05 in steps of 0.005
FadeTarget == 6
Highlight == 10

MaxPendingTimers == 2

\* animation loops running at the same time
MaxLoops == 2

requestAnimationFrame(R, callback) ==
  [R EXCEPT !.g.frames = Append(SelectSeq(@, LAMBDA c : c # callback), callback)]

\* animateOpacity of showBoundaryLayers, its local opacity being o
ShowStep(R, o) ==
  IF o < FadeTarget
  THEN requestAnimationFrame([R EXCEPT !.g.fillOpacity = o + 1],
                             [loop |-> "show", opacity |-> o + 1])
  ELSE R

\* animateOpacity of hideBoundaryLayers, its local opacity being o
HideStep(R, o) ==
  IF o > 0
  THEN IF o - 1 > 0
       THEN requestAnimationFrame([R EXCEPT !.g.fillOpacity = o - 1],
                                  [loop |-> "hide", opacity |-> o - 1])
       ELSE [R EXCEPT !.g.fillOpacity = 0, !.g.boundaryVisible = FALSE]
  ELSE [R EXCEPT !.g.boundaryVisible = FALSE]

\* the layers that exist are made visible and the fill fades in from 0
showBoundaryLayers(R) ==
  IF R.g.layersAdded
  THEN ShowStep([R EXCEPT !.g.boundaryVisible = TRUE, !.g.lastRequest = "show"], 0)
  ELSE R

\* the fill fades out from its current opacity (0.03 if that is 0) and is
\* hidden at the end
hideBoundaryLayers(R) ==
  IF R.g.layersAdded
  THEN HideStep([R EXCEPT !.g.lastRequest = "hide"],
                IF R.g.fillOpacity = 0 THEN FadeTarget ELSE R.g.fillOpacity)
  ELSE R

\* one animation frame: the waiting callbacks run in the order they were
\* requested; what they request waits for the next frame
RECURSIVE RunCallbacks(_, _)
RunCallbacks(R, waiting) ==
  IF waiting = <<>> THEN R
  ELSE LET c == Head(waiting)
       IN RunCallbacks(IF c.loop = "show" THEN ShowStep(R, c.opacity)
                                          ELSE HideStep(R, c.opacity),
                       Tail(waiting))

AnimationFrame(R) == RunCallbacks([R EXCEPT !.g.frames = <<>>], R.g.frames)

PendingTimers(g) == g.timers.hide + g.timers.remove + g.timers.reset

LoopRoom == Len(geoMgr.frames) < MaxLoops

\* pauseTracking() / resumeTracking()
pauseTracking(R) ==
  IF R.g.watchState = "ACTIVE_LOCK"
  THEN [R EXCEPT !.g.wasTracking = TRUE, !.g.watchState = "ACTIVE_ERROR"]
  ELSE R

resumeTracking_NoFlag(R) ==
  [R EXCEPT !.g.watchState = "ACTIVE_LOCK", !.g.wasTracking = FALSE]

resumeTracking(R) ==
  IF R.g.wasTracking
  THEN [R EXCEPT !.g.watchState = "ACTIVE_LOCK", !.g.wasTracking = FALSE]
  ELSE R

updateSearchRadius(R) ==
  IF R.g.layersAdded THEN [R EXCEPT !.g.searchRadius = "circle"] ELSE R

clearSearchRadius(R) ==
  IF R.g.layersAdded THEN [R EXCEPT !.g.searchRadius = "empty"] ELSE R

updateDistanceMarkers(R, position) ==
  [R EXCEPT !.g.distanceMarkers = IF position.near THEN 1 ELSE 0]

\* handleGeolocationError picks the message, showNotification appends it
handleGeolocationError(R) ==
  [R EXCEPT !.g.notifications = @ + 1, !.notified = TRUE]

\* the existing popup is removed (its pending removal has nothing left to
\* remove) and a new one appended; the boundary is highlighted for 2000 ms;
\* the camera flies to the centre only when the map is neither moving nor
\* easing
showBoundaryPopup(R, moving) ==
  LET shown == [R EXCEPT !.g.boundaryPopup = TRUE, !.g.timers.remove = 0,
                         !.popupShown = TRUE]
      lit == IF shown.g.layersAdded
             THEN [shown EXCEPT !.g.fillOpacity = Highlight, !.g.timers.reset = @ + 1]
             ELSE shown
  IN  IF ~moving THEN flyTo(lit, "center") ELSE lit

\* the click listener of the popup's button: the popup slides out, is
\* removed after 600 ms, the boundary is hidden after 200 ms, and the
\* camera flies back to the intro position
onPopupButtonClick(R) ==
  flyTo([R EXCEPT !.g.timers.remove = @ + 1, !.g.timers.hide = @ + 1], "intro")

\* the callbacks of the popup's timeouts
onTimeout(R, kind) ==
  LET fired == [R EXCEPT !.g.timers[kind] = @ - 1]
  IN  CASE kind = "hide"   -> hideBoundaryLayers(fired)
        [] kind = "remove" -> [fired EXCEPT !.g.boundaryPopup = FALSE]
        [] OTHER           -> IF fired.g.layersAdded
                              THEN [fired EXCEPT !.g.fillOpacity = FadeTarget]
                              ELSE fired

handleUserLocation(R, position, moving) ==
  IF isWithinBoundary(position)
  THEN LET drawn == updateDistanceMarkers(updateSearchRadius(R), position)
       IN  IF ~drawn.g.isPopupOpen
           THEN IF drawn.g.isFirstLocation
                THEN [flyTo(drawn, "user") EXCEPT !.g.isFirstLocation = FALSE]
                ELSE IF position.moved THEN flyTo(drawn, "user") ELSE drawn
           ELSE drawn
  ELSE LET off_ == [R EXCEPT !.g.watchState = "OFF"]
           cleared == [clearSearchRadius(off_) EXCEPT !.g.distanceMarkers = 0]
       IN  flyTo(showBoundaryPopup(cleared, moving), "center")

\* the control's own _onSuccess: a waiting or failed tracking control locks
\* onto the position
originalOnSuccess(R) ==
  IF R.g.watchState \in {"WAITING_ACTIVE", "ACTIVE_LOCK", "ACTIVE_ERROR"}
  THEN [R EXCEPT !.g.watchState = "ACTIVE_LOCK"]
  ELSE R

\* the override installed over the control's _onSuccess
onSuccess(R, position, moving) ==
  IF R.g.userInitiatedGeolocation /\ ~isWithinBoundary(position)
  THEN LET off_ == [R EXCEPT !.g.watchState = "OFF"]
           shown == showBoundaryPopup(showBoundaryLayers(off_), moving)
       IN  [shown EXCEPT !.g.userInitiatedGeolocation = FALSE]
  ELSE [originalOnSuccess(R) EXCEPT !.g.userInitiatedGeolocation = FALSE]

\* the control's own _onError, before it fires 'error': a denied permission
\* switches the control off and ends the watch, any other failure puts a
\* tracking control into its error state
originalOnError(R, code) ==
  IF code = 1
  THEN [R EXCEPT !.g.watchState = "OFF", !.g.watching = FALSE]
  ELSE IF R.g.watchState \in {"WAITING_ACTIVE", "ACTIVE_LOCK"}
       THEN [R EXCEPT !.g.watchState = "ACTIVE_ERROR"]
       ELSE R

\* the 'error' listener
onError(R) ==
  LET told == IF R.g.userInitiatedGeolocation THEN handleGeolocationError(R) ELSE R
  IN  [told EXCEPT !.g.userInitiatedGeolocation = FALSE]

\* the capture-phase click listener on the geolocate button
onButtonClick(R) ==
  showBoundaryLayers([R EXCEPT !.g.userInitiatedGeolocation = TRUE])

onTrackUserLocationStart(R) ==
  showBoundaryLayers([R EXCEPT !.g.isTracking = TRUE])

onTrackUserLocationEnd(R) ==
  LET ended == [R EXCEPT !.g.isTracking = FALSE, !.g.isFirstLocation = TRUE]
      eased == flyTo(ended, "bearing")
  IN  [clearSearchRadius(eased) EXCEPT !.g.distanceMarkers = 0]

\* the control's own click handling: an idle control starts watching and
\* fires trackuserlocationstart, a tracking control stops and fires
\* trackuserlocationend
trigger(R) ==
  IF R.g.watchState = "OFF"
  THEN onTrackUserLocationStart(
         [R EXCEPT !.g.watchState = "WAITING_ACTIVE", !.g.watching = TRUE])
  ELSE onTrackUserLocationEnd(
         [R EXCEPT !.g.watchState = "OFF", !.g.watching = FALSE])

GeoDone(R, name, outside) ==
  /\ geoMgr' = R.g
  /\ geoOp' = [name |-> name, outside |-> outside,
               userInitiated |-> geoMgr.userInitiatedGeolocation,
               clicked |-> userClicked,
               watchBefore |-> geoMgr.watchState,
               flights |-> R.flights, notified |-> R.notified,
               popupShown |-> R.popupShown,
               pausedFrom |->
                 IF name = "pauseTracking" /\ R.g.watchState # geoMgr.watchState
                 THEN geoMgr.watchState
                 ELSE IF name = "resumeTracking" THEN "none"
                 ELSE geoOp.pausedFrom]
  /\ userClicked' = IF name = "click" THEN TRUE
                    ELSE IF name \in {"success", "error"} THEN FALSE
                    ELSE userClicked
  /\ UNCHANGED <<filterVars, loaderVars, eventVars, tourVars>>

\* the control finished building its button
ControlSetup ==
  /\ ~geoMgr.button
  /\ GeoDone([Run EXCEPT !.g.button = TRUE], "setup", FALSE)

\* map.once('idle'): the click listener is added if the button is there
MapIdle ==
  /\ ~geoMgr.idleFired
  /\ GeoDone([Run EXCEPT !.g.idleFired = TRUE,
                         !.g.buttonListener = geoMgr.button], "idle", FALSE)

\* map 'load': the radius and boundary sources and layers are added
MapLoadsLayers ==
  /\ ~geoMgr.layersAdded
  /\ GeoDone([Run EXCEPT !.g.layersAdded = TRUE], "load", FALSE)

ButtonClick ==
  /\ geoMgr.button
  /\ LoopRoom
  /\ GeoDone(trigger(IF geoMgr.buttonListener THEN onButtonClick(Run) ELSE Run),
             "click", FALSE)

PositionSuccess(position, moving) ==
  /\ geoMgr.watching
  /\ isWithinBoundary(position) \/ (PendingTimers(geoMgr) < MaxPendingTimers /\ LoopRoom)
  /\ GeoDone(onSuccess(Run, position, moving), "success",
             ~isWithinBoundary(position))

PositionError(code) ==
  /\ geoMgr.watching
  /\ geoMgr.notifications < MaxNotifications
  /\ GeoDone(onError(originalOnError(Run, code)), "error", FALSE)

HandleUserLocation(position, moving) ==
  /\ isWithinBoundary(position) \/ PendingTimers(geoMgr) < MaxPendingTimers
  /\ GeoDone(handleUserLocation(Run, position, moving), "handleUserLocation",
             ~isWithinBoundary(position))

\* the 5000 ms timer of showNotification
NotificationExpires ==
  /\ geoMgr.notifications > 0
  /\ GeoDone([Run EXCEPT !.g.notifications = @ - 1], "expire", FALSE)

\* window.geolocationManager.pauseTracking() / resumeTracking()
PauseTracking ==
  /\ geoMgr.button
  /\ GeoDone(pauseTracking(Run), "pauseTracking", FALSE)

ResumeTracking ==
  /\ geoMgr.button
  /\ GeoDone(resumeTracking(Run), "resumeTracking", FALSE)

\* a click on the button of the come-back popup
PopupButtonClick ==
  /\ geoMgr.boundaryPopup
  /\ PendingTimers(geoMgr) + 2 <= MaxPendingTimers
  /\ GeoDone(onPopupButtonClick(Run), "popupButton", FALSE)

TimerKinds == {"hide", "remove", "reset"}

Timeout(kind) ==
  /\ geoMgr.timers[kind] > 0
  /\ kind = "hide" => LoopRoom
  /\ GeoDone(onTimeout(Run, kind), kind, FALSE)

Frame ==
  /\ geoMgr.frames # <<>>
  /\ GeoDone(AnimationFrame(Run), "frame", FALSE)

NextGeo ==
  \/ ControlSetup
  \/ MapIdle
  \/ MapLoadsLayers
  \/ ButtonClick
  \/ \E position \in Positions, moving \in BOOLEAN : PositionSuccess(position, moving)
  \/ \E code \in ErrorCodes : PositionError(code)
  \/ \E position \in Positions, moving \in BOOLEAN : HandleUserLocation(position, moving)
  \/ NotificationExpires
  \/ PauseTracking
  \/ ResumeTracking
  \/ \E kind \in TimerKinds : Timeout(kind)

SpecGeo == InitState /\ [][NextGeo]_vars

\* the boundary layers frame by frame: the handlers that show and hide
\* them, the popup's button and timeouts, and the animation frames
NextBoundary ==
  \/ ControlSetup
  \/ MapIdle
  \/ MapLoadsLayers
  \/ ButtonClick
  \/ \E position \in Positions, moving \in BOOLEAN : PositionSuccess(position, moving)
  \/ PopupButtonClick
  \/ \E kind \in TimerKinds : Timeout(kind)
  \/ Frame

SpecBoundary == InitState /\ [][NextBoundary]_vars

PositionOps == {"success", "handleUserLocation"}

\* C18: an update outside the boundary that arrives while
\* userInitiatedGeolocation is false (automatic tracking) never shows the
\* come-back popup and never forces the watch state to OFF, in the success
\* override and in handleUserLocation alike.
C18_ExitOnlyUserInitiated ==
  (geoOp.name \in PositionOps /\ geoOp.outside /\ ~geoOp.userInitiated)
    => /\ ~geoOp.popupShown
       /\ geoOp.watchBefore # "OFF" => geoMgr.watchState # "OFF"

\* C19: after a user-initiated update outside the boundary was handled, the
\* watch state is OFF, the radius is cleared, no distance marker is left,
\* the come-back popup is shown and a flight to the centre was requested.
C19_ExitBehaviour ==
  (geoOp.name \in PositionOps /\ geoOp.outside /\ geoOp.userInitiated)
    => /\ geoMgr.watchState = "OFF"
       /\ geoMgr.searchRadius = "empty"
       /\ geoMgr.distanceMarkers = 0
       /\ geoMgr.boundaryPopup
       /\ "center" \in geoOp.flights

\* C20: an error event shows a notification exactly when the button was
\* clicked and no position result or error was delivered since; after every
\* error event and every position result the flag is false.
C20_ErrorsOnlyUserInitiated ==
  /\ geoOp.name = "error" => (geoOp.notified <=> geoOp.clicked)
  /\ geoOp.name \in {"error", "success"} => ~geoMgr.userInitiatedGeolocation

C25_WatchStateTransitions ==
  /\ geoOp.name = "pauseTracking" =>
       \/ geoMgr.watchState = geoOp.watchBefore
       \/ (geoOp.watchBefore = "ACTIVE_LOCK" /\ geoMgr.watchState = "ACTIVE_ERROR")
  /\ geoOp.name = "resumeTracking" =>
       \/ geoMgr.watchState = geoOp.watchBefore
       \/ (geoOp.watchBefore = "ACTIVE_ERROR" /\ geoMgr.watchState = "ACTIVE_LOCK")
  /\ (geoOp.name \in PositionOps /\ geoOp.popupShown) => geoMgr.watchState = "OFF"

\* C22: with the boundary layers on the map, the click that starts tracking
\* leaves them visible with the fade-in running, and the click that ends
\* tracking leaves a fade-out requested.
C22_TrackingTogglesBoundary ==
  (geoOp.name = "click" /\ geoMgr.layersAdded) =>
    IF geoOp.watchBefore = "OFF"
    THEN /\ geoMgr.boundaryVisible
         /\ geoMgr.lastRequest = "show"
         /\ \E c \in Members(geoMgr.frames) : c.loop = "show"
    ELSE geoMgr.lastRequest = "hide"

\* no animation callback and no hide or highlight timeout is pending
Quiescent ==
  /\ geoMgr.frames = <<>>
  /\ geoMgr.timers.hide = 0
  /\ geoMgr.timers.reset = 0

\* C30: once the animations have run out, the fill layer is as the last
\* request wants it: visible at 0.03 after a show, hidden after a hide.
C30_LastRequestWins ==
  Quiescent =>
    /\ geoMgr.lastRequest = "show" =>
         (geoMgr.boundaryVisible /\ geoMgr.fillOpacity = FadeTarget)
    /\ geoMgr.lastRequest = "hide" => ~geoMgr.boundaryVisible

(***************************************************************************)
(* Part VI: the guided tour's wait for a marker click (tour.ts)            *)
(***************************************************************************)
\* the steps startTour adds, in order
TourSteps ==
  <<"welcome", "map-controls", "filters", "geolocation", "try-marker",
    "popup-info", "like-heart-svg", "finish">>

StepIndex(id) == CHOOSE i \in DOMAIN TourSteps : TourSteps[i] = id

\* how often the try-marker step is shown in one run
MaxWaits == 3

clearTimeout(t, id) == [t EXCEPT !.pending = @ \ {id}]

\* the 'show' handler of the try-marker step: the flag, and a new 15 s
\* fallback timer whose id is kept in window.markerClickFallbackTimer
showTryMarker(t) ==
  [t EXCEPT !.waiting = TRUE,
            !.timerId = t.nextId,
            !.pending = @ \cup {t.nextId},
            !.nextId = @ + 1]

\* the 'hide' handler of the try-marker step without its clearTimeout
hideTryMarker_NoClear(t) == [t EXCEPT !.hintVisible = FALSE]

\* the 'hide' handler of the try-marker step: the fallback timer is
\* cleared and the instruction messages are removed
hideTryMarker(t) ==
  [(IF t.timerId # 0 THEN clearTimeout(t, t.timerId) ELSE t)
     EXCEPT !.hintVisible = FALSE]

\* tour.show(id): the current step is hidden, then the step is shown, each
\* with its 'when' handler
tourShow(t, id) ==
  LET hidden == IF t.step = "try-marker" THEN hideTryMarker(t) ELSE t
      shown == [hidden EXCEPT !.step = id]
  IN IF id = "try-marker" THEN showTryMarker(shown) ELSE shown

\* the Skip button of the try-marker step
skipAction(t) == tourShow([t EXCEPT !.waiting = FALSE], "popup-info")

\* window.markerClickListener, on a click on the location-markers layer
markerClickListener(t) ==
  IF t.waiting
    THEN [clearTimeout([t EXCEPT !.waiting = FALSE], t.timerId)
            EXCEPT !.advance = @ + 1]
    ELSE t

\* the 500 ms timer of the marker click listener
advanceCallback(t) ==
  LET fired == [t EXCEPT !.advance = @ - 1]
  IN IF fired.step = "try-marker" THEN tourShow(fired, "popup-info") ELSE fired

\* the 15 s fallback timer with this id fires: the hint, if still waiting
fallbackCallback(t, id) ==
  LET fired == [t EXCEPT !.pending = @ \ {id}]
  IN IF fired.waiting
       THEN [fired EXCEPT !.hintVisible = TRUE, !.hints = @ + 1]
       ELSE fired

\* cleanupTour, on the tour's 'complete' and 'cancel' events
cleanupTour(t) ==
  [(IF t.timerId # 0 THEN clearTimeout(t, t.timerId) ELSE t)
     EXCEPT !.waiting = FALSE, !.hintVisible = FALSE]

\* the tour ends; whether the library hides the current step first
\* depends on its version
tourEnds(t, hides) ==
  LET hidden == IF hides /\ t.step = "try-marker" THEN hideTryMarker(t) ELSE t
  IN [cleanupTour(hidden) EXCEPT !.active = FALSE, !.step = "none"]

\* startTour(map): a new tour, the marker click listener, tour.start()
startTour(t) ==
  tourShow([t EXCEPT !.active = TRUE, !.listener = TRUE, !.step = "none"],
           TourSteps[1])

\* the handler has run: the program state it leaves and the history. A
\* wait begins when the try-marker step is shown; it is superseded by a
\* marker click, the Skip button, leaving the step, and the tour's end
TourDone(t, name, supersedes, hintFor) ==
  /\ tour' = t
  /\ tourLog' =
       [name |-> name,
        wait |-> IF t.nextId > tour.nextId THEN t.timerId
                 ELSE IF supersedes THEN 0 ELSE tourLog.wait,
        superseded |-> IF supersedes /\ tourLog.wait # 0
                         THEN tourLog.superseded \cup {tourLog.wait}
                         ELSE tourLog.superseded,
        hintFor |-> hintFor]
  /\ UNCHANGED <<filterVars, loaderVars, eventVars, geoVars>>

\* the try-marker step can be shown once more
WaitRoom(id) == id = "try-marker" => tour.nextId <= MaxWaits

AtTryMarker == tour.step = "try-marker"

\* the welcome message's start button, or the help button with no tour
StartTour ==
  /\ ~tour.active
  /\ TourDone(startTour(tour), "startTour", FALSE, 0)

\* the help button while a tour is active shows the current step again
HelpButton ==
  /\ tour.active
  /\ WaitRoom(tour.step)
  /\ TourDone(tourShow(tour, tour.step), "help", AtTryMarker, 0)

\* the forward button of the steps that have one (tour.next)
NextStep ==
  /\ tour.active
  /\ tour.step \notin {"try-marker", "finish"}
  /\ WaitRoom(TourSteps[StepIndex(tour.step) + 1])
  /\ TourDone(tourShow(tour, TourSteps[StepIndex(tour.step) + 1]), "next", FALSE, 0)

\* the back button of the steps that have one (tour.back)
BackStep ==
  /\ tour.active
  /\ tour.step \notin {"welcome", "finish"}
  /\ WaitRoom(TourSteps[StepIndex(tour.step) - 1])
  /\ TourDone(tourShow(tour, TourSteps[StepIndex(tour.step) - 1]), "back", AtTryMarker, 0)

SkipButton ==
  /\ tour.active
  /\ AtTryMarker
  /\ TourDone(skipAction(tour), "skip", TRUE, 0)

\* the user clicks a marker on the map, at any time after a tour began
MarkerClick ==
  /\ tour.listener
  /\ TourDone(markerClickListener(tour), "markerClick", TRUE, 0)

AdvanceTimeout ==
  /\ tour.advance > 0
  /\ TourDone(advanceCallback(tour), "advance", AtTryMarker, 0)

FallbackTimeout(id) ==
  /\ id \in tour.pending
  /\ TourDone(fallbackCallback(tour, id), "fallback", FALSE,
              IF tour.waiting THEN id ELSE 0)

\* the hint removes itself after 5 s
HintExpires ==
  /\ tour.hintVisible
  /\ TourDone([tour EXCEPT !.hintVisible = FALSE], "hintExpires", FALSE, 0)

\* the Klaar button of the last step (tour.complete)
CompleteTour ==
  /\ tour.active
  /\ tour.step = "finish"
  /\ \E hides \in BOOLEAN : TourDone(tourEnds(tour, hides), "complete", TRUE, 0)

\* the cancel icon, the progress bar's close button or the Escape key
CancelTour ==
  /\ tour.active
  /\ \E hides \in BOOLEAN : TourDone(tourEnds(tour, hides), "cancel", TRUE, 0)

NextTour ==
  \/ StartTour
  \/ HelpButton
  \/ NextStep
  \/ BackStep
  \/ SkipButton
  \/ MarkerClick
  \/ AdvanceTimeout
  \/ \E id \in 1..MaxWaits : FallbackTimeout(id)
  \/ HintExpires
  \/ CompleteTour
  \/ CancelTour

SpecTour == InitState /\ [][NextTour]_vars

====
